---- MODULE Spec2Model ----
(***************************************************************************)
(* The entity form controllers of the admin front end: ProjectForm and     *)
(* VideoForm (validation schema, local form state, the submit handler)     *)
(* modelled as state machines.                                             *)
(***************************************************************************)
EXTENDS Integers, Sequences, FiniteSets, TLC

VARIABLES
    kind,                  \* which form component is mounted: "project" | "video"
    mode,                  \* the component's mode prop: "create" | "edit"
    id,                    \* useParams().id
    draft,                 \* react-hook-form's form values
    selectedCategories,    \* useState<string[]>([])
    socialLinksSelection,  \* useState({website: false, ...})
    loading,               \* useState(false)
    loadPc,                \* progress of fetchProject / fetchVideo
    categories,            \* useState<Category[]>([]): the fetched category names
    categoriesPc,          \* progress of fetchCategories
    location,              \* the router's location: "form" while the form is shown
    projects,              \* VideoForm: useState<Project[]>([]), the published projects
    projectsPc,            \* progress of VideoForm.fetchProjects
    logoFile,              \* useState<File | null>(null)
    heroImageFile,         \* useState<File | null>(null)
    projectImageFiles,     \* useState<File[]>([])
    thumbnailFile,         \* VideoForm: useState<File | null>(null)
    runs,                  \* the calls of handleSubmit(onSubmit) in progress or finished
    toggleHist,            \* history of the last category toggles (observer only)
    path,                  \* the router's URL path
    authLoading,           \* useAuth().loading
    isAuthenticated,       \* useAuth().isAuthenticated
    hops,                  \* the redirects since the last navigation (observer only)
    featuredIds,           \* backend: the entities of the form's kind that are featured
    other,                 \* a second form instance's submission of a featured entity
    picked,                \* the file last selected in each slot's input (observer only)
    reads,                 \* the FileReader reads in progress: <<slot, file>> pairs
    galleryReads,          \* the gallery's FileReader reads in progress, in the order started
    readLog,               \* whether a read failed / completed out of order (observer only)
    logoPreview,           \* useState<string>("")
    heroImagePreview,      \* useState<string>("")
    projectImagePreviews,  \* useState<string[]>([])
    thumbnailPreview       \* VideoForm: useState<string>("")

formVars == <<kind, mode, id, draft, selectedCategories, socialLinksSelection,
              loading, loadPc, categories, categoriesPc, location>>

fileVars == <<logoFile, heroImageFile, projectImageFiles, thumbnailFile>>

submitVars == <<projects, projectsPc, runs>>

routeVars == <<path, authLoading, isAuthenticated, hops>>

backendVars == <<featuredIds, other>>

stageVars == <<picked, reads, galleryReads, readLog>>

previewVars == <<logoPreview, heroImagePreview, projectImagePreviews, thumbnailPreview>>

\* What the load of the entity leaves alone outside the form values.
outerVars == <<routeVars, backendVars, stageVars>>

worldVars == <<outerVars, previewVars>>

vars == <<formVars, fileVars, submitVars, toggleHist, worldVars>>

(***************************************************************************)
(* Values                                                                  *)
(***************************************************************************)

\* JavaScript's undefined: a form value never set, a payload key left out.
Undefined == "undefined"

\* The form's categories value before any setValue("categories", ...).
UndefinedList == <<Undefined>>

\* useParams().id on a route without an :id segment.
NoId == Undefined

RouteIds == {"p1"}

CategoryNames == {"DeFi", "NFT"}

Platforms == {"website", "twitter", "github", "discord", "telegram"}

WellFormedUrls == {"https://foo.io/x"}

UrlInputs == {"", "https://foo.io/x", "not a url"}

NameInputs == {"", "Foo"}

TaglineInputs == {"", "bar"}

DescriptionInputs == {"", "too short", "a sufficiently long description"}

\* The three boolean / URL pairs of the project form.
FlagOf == [careerPageUrl |-> "isHiring",
           bountySubmissionUrl |-> "isOpenForBounty",
           githubUrl |-> "isOpenSource"]

ConditionalUrls == DOMAIN FlagOf

SetOf(s) == {s[i] : i \in DOMAIN s}

\* JavaScript truthiness of a string | undefined value.
Truthy(v) == v # Undefined /\ v # ""

(***************************************************************************)
(* Validation                                                              *)
(***************************************************************************)

Err(f, k) == [field |-> f, kind |-> k]

\* z.string().url(): the value parses as an absolute URL.
IsUrl(v) == v \in WellFormedUrls

\* z.string().min(1, "... is required")
RequiredString(f, v) ==
    IF v = Undefined \/ Len(v) < 1 THEN {Err(f, "required")} ELSE {}

\* z.string().min(10, "Description must be at least 10 characters")
MinDescription(v) ==
    IF v = Undefined THEN {Err("description", "required")}
    ELSE IF Len(v) < 10 THEN {Err("description", "too_short")} ELSE {}

\* Mutant of MinCategories: the minimum length is not checked.
MinCategoriesAnyLength(c) ==
    IF c = UndefinedList THEN {Err("categories", "required")} ELSE {}

\* z.array(z.string()).min(1, "At least one category is required")
MinCategories(c) ==
    IF c = UndefinedList \/ Len(c) < 1 THEN {Err("categories", "required")} ELSE {}

\* z.string().url("Must be a valid URL").optional().or(z.literal(""))
OptionalUrl(f, v) ==
    IF v = Undefined \/ v = "" \/ IsUrl(v) THEN {} ELSE {Err(f, "invalid_url")}

\* projectSchema: the field errors zodResolver reports for form values d.
ProjectSchemaErrors(d) ==
    RequiredString("name", d.name)
    \cup RequiredString("tagline", d.tagline)
    \cup MinDescription(d.description)
    \cup MinCategories(d.categories)
    \cup OptionalUrl("website", d.website)
    \cup UNION {OptionalUrl(u, d[u]) : u \in ConditionalUrls}
    \cup UNION {OptionalUrl(p, d.socialLinks[p]) : p \in Platforms}

\* Mutant of InputRequired: an empty string counts as a value.
InputRequiredIgnoresEmpty(f, v) ==
    IF v = Undefined THEN {Err(f, "required")} ELSE {}

\* An <input required>: the browser's constraint validation blocks the submit
\* event while the control's value is empty.
InputRequired(f, v) ==
    IF v = Undefined \/ v = "" THEN {Err(f, "required")} ELSE {}

\* An <input type="url">: a non-empty value must be a URL.
InputTypeUrl(f, v) ==
    IF v = Undefined \/ v = "" \/ IsUrl(v) THEN {} ELSE {Err(f, "invalid_url")}

\* Mutant of ConditionalInput: the control lacks the required attribute.
ConditionalInputOptional(d, u) ==
    IF d[FlagOf[u]] THEN InputTypeUrl(u, d[u]) ELSE {}

\* {watchedIsHiring && <input {...register("careerPageUrl")} type="url"
\*   required={watchedIsHiring} />}: the control exists only while the flag is
\* true, and is then required.
ConditionalInput(d, u) ==
    IF d[FlagOf[u]] THEN InputRequired(u, d[u]) \cup InputTypeUrl(u, d[u]) ELSE {}

\* {socialLinksSelection[key] && <input type="url" required=... />}
SocialInput(d, sel, p) ==
    IF sel[p]
    THEN InputRequired(p, d.socialLinks[p]) \cup InputTypeUrl(p, d.socialLinks[p])
    ELSE {}

\* The constraints of the controls the project form renders for (d, sel).
ProjectInputErrors(d, sel) ==
    InputRequired("name", d.name)
    \cup InputRequired("tagline", d.tagline)
    \cup InputRequired("description", d.description)
    \cup UNION {ConditionalInput(d, u) : u \in ConditionalUrls}
    \cup UNION {SocialInput(d, sel, p) : p \in Platforms}

\* What a submit of the project form reports: the browser first (no submit
\* event while a rendered control is invalid), then
\* handleSubmit's resolver.
ProjectFieldErrors(d, sel) ==
    IF ProjectInputErrors(d, sel) # {} THEN ProjectInputErrors(d, sel)
    ELSE ProjectSchemaErrors(d)

ProjectValidate(d, sel) == ProjectFieldErrors(d, sel) = {}

(***************************************************************************)
(* The payload of ProjectForm.onSubmit                                     *)
(***************************************************************************)

\* Mutant of ConditionalValue: the URL is copied whatever the flag.
ConditionalValueAlways(data, u) == data[u]

\* data.isHiring ? data.careerPageUrl : undefined
ConditionalValue(data, u) == IF data[FlagOf[u]] THEN data[u] ELSE Undefined

\* Object.fromEntries(Object.entries(data.socialLinks).filter(([key, value])
\*   => data.includeSocialLinks[key] && value))
PayloadSocialLinks(data) ==
    [p \in {q \in Platforms :
              data.includeSocialLinks[q] /\ Truthy(data.socialLinks[q])}
       |-> data.socialLinks[p]]

\* projectData; uploads is the record uploadFiles returned.
ProjectData(data, uploads) ==
    [name |-> data.name,
     tagline |-> data.tagline,
     description |-> data.description,
     categories |-> data.categories,
     featured |-> data.featured,
     status |-> data.status,
     isHiring |-> data.isHiring,
     careerPageUrl |-> ConditionalValue(data, "careerPageUrl"),
     isOpenForBounty |-> data.isOpenForBounty,
     bountySubmissionUrl |-> ConditionalValue(data, "bountySubmissionUrl"),
     isOpenSource |-> data.isOpenSource,
     githubUrl |-> ConditionalValue(data, "githubUrl"),
     logo |-> uploads.logo,
     heroImage |-> uploads.heroImage,
     projectImages |-> uploads.projectImages,
     socialLinks |-> PayloadSocialLinks(data)]

\* uploadFiles' result when no file is staged.
NoUploads == [logo |-> Undefined, heroImage |-> Undefined,
              projectImages |-> UndefinedList]

(***************************************************************************)
(* The routes of AppContent and ProtectedRoute                             *)
(***************************************************************************)

\* A URL path is the sequence of its segments: "/" is <<>>.
LoginPath == <<"login">>

DashboardPath == <<"dashboard">>

\* The path patterns of the <Route> elements, ":id" a dynamic segment. The
\* nested routes are relative to their parent's "/".
LoginRoute == <<"login">>

IndexRoute == <<>>

ChildRoutes ==
    { <<"dashboard">>, <<"projects">>, <<"projects", "new">>, <<"projects", ":id">>,
      <<"projects", ":id", "edit">>, <<"videos">>, <<"videos", "new">>,
      <<"videos", ":id">>, <<"videos", ":id", "edit">>, <<"settings">> }

\* <Route path="*">
CatchAll == <<"*">>

\* The routes declared with a path of their own.
DeclaredRoutes == {LoginRoute, IndexRoute} \cup ChildRoutes

\* The paths the browser is sent to: every declared route, with p1 or p2 for
\* :id, and paths that match no declared route.
Paths ==
    { <<>>, <<"login">>, <<"dashboard">>, <<"projects">>, <<"projects", "new">>,
      <<"videos">>, <<"videos", "new">>, <<"settings">> }
    \cup { <<k, i>> : k \in {"projects", "videos"}, i \in {"p1", "p2"} }
    \cup { <<k, i, "edit">> : k \in {"projects", "videos"}, i \in {"p1", "p2"} }
    \cup { <<"nowhere">>, <<"login", "x">>, <<"projects", "p1", "edit", "x">>,
           <<"dashboard", "p1">>, <<"projects", "new", "edit">>,
           <<"settings", "x">>, <<"videos", "p1", "view">>, <<"videos", "new", "x">> }

\* The pattern matches the path segment by segment.
Matches(pattern, p) ==
    /\ Len(pattern) = Len(p)
    /\ \A i \in 1..Len(p) : pattern[i] = ":id" \/ pattern[i] = p[i]

\* The number of dynamic segments of a pattern.
Dynamic(pattern) == Cardinality({i \in 1..Len(pattern) : pattern[i] = ":id"})

\* The route <Routes> renders for a path: the matching pattern that ranks
\* highest (static segments before dynamic ones), the catch-all if none does.
Match(p) ==
    LET matching == {pattern \in DeclaredRoutes : Matches(pattern, p)}
    IN  IF matching = {} THEN CatchAll
        ELSE CHOOSE pattern \in matching :
                \A q \in matching : Dynamic(pattern) <= Dynamic(q)

\* What a component renders: a view, the spinner, or a <Navigate replace>.
View(route) == [kind |-> "view", route |-> route, to |-> <<>>]

Spinner == [kind |-> "spinner", route |-> <<>>, to |-> <<>>]

Navigate(to) == [kind |-> "navigate", route |-> <<>>, to |-> to]

\* Mutant of RouteElement: the catch-all route navigates to a path that no
\* route declares.
RouteElementCatchAllLoops(route) ==
    CASE route = LoginRoute -> View(route)
      [] route = IndexRoute -> Navigate(DashboardPath)
      [] route = CatchAll -> Navigate(<<"nowhere">>)
      [] OTHER -> View(route)

\* The element prop of the matched route (for a nested route, what Layout's
\* outlet shows).
RouteElement(route) ==
    CASE route = LoginRoute -> View(route)
      [] route = IndexRoute -> Navigate(DashboardPath)
      [] route = CatchAll -> Navigate(DashboardPath)
      [] OTHER -> View(route)

\* The routes nested in the <Route path="/"> whose element is
\* <ProtectedRoute><Layout /></ProtectedRoute>.
Protected(route) == route \in {IndexRoute} \cup ChildRoutes

\* Mutant of ProtectedRoute: isAuthenticated is tested before loading.
ProtectedRouteAuthFirst(l, authenticated, children) ==
    IF ~authenticated THEN Navigate(LoginPath)
    ELSE IF l THEN Spinner
    ELSE children

\* ProtectedRoute: the spinner while loading, <Navigate to="/login"> if not
\* authenticated, else the children.
ProtectedRoute(l, authenticated, children) ==
    IF l THEN Spinner
    ELSE IF ~authenticated THEN Navigate(LoginPath)
    ELSE children

\* What <Routes> renders at path p with the session as given.
Render(p, l, authenticated) ==
    IF Protected(Match(p))
    THEN ProtectedRoute(l, authenticated, RouteElement(Match(p)))
    ELSE RouteElement(Match(p))

\* The route path of the mounted form.
FormPath(k, m, i) ==
    <<IF k = "project" THEN "projects" ELSE "videos">>
    \o (IF m = "create" THEN <<"new">> ELSE <<i, "edit">>)

NoHops == [from |-> <<>>, n |-> 0]

(***************************************************************************)
(* Construction                                                            *)
(***************************************************************************)

AllFalse == [p \in Platforms |-> FALSE]

\* A file slot holding null.
NoFile == "null"

\* The number of handleSubmit calls of one form instance followed at a time.
MaxRuns == 2

Runs == 1..MaxRuns

\* A handleSubmit call that has not happened.
IdleRun ==
    [pc |-> "idle",
     data |-> [featured |-> FALSE],
     files |-> [logo |-> NoFile, heroImage |-> NoFile, projectImages |-> <<>>,
                thumbnail |-> NoFile],
     projects |-> {},
     todo |-> <<>>,
     calls |-> <<>>,
     count |-> -1,
     countFailed |-> FALSE,
     uploads |-> [logo |-> Undefined, heroImage |-> Undefined,
                  projectImages |-> UndefinedList, thumbnail |-> Undefined],
     save |-> [op |-> "none", id |-> NoId, payload |-> [featured |-> FALSE]],
     errors |-> {},
     toast |-> "none",
     nav |-> "none",
     outcome |-> "none",
     failedAt |-> "none"]

\* Nothing staged, nothing submitted: the state of useState's initial values.
InitIdle ==
    /\ projects = {}
    /\ logoFile = NoFile
    /\ heroImageFile = NoFile
    /\ projectImageFiles = <<>>
    /\ thumbnailFile = NoFile
    /\ runs = [r \in Runs |-> IdleRun]

\* e.target.result of the FileReader that read file f: its data URL.
PreviewOf(f) == IF f = NoFile THEN "" ELSE "data:" \o f

\* One preview per file, in the files' order.
PreviewsOf(files) == [i \in 1..Len(files) |-> PreviewOf(files[i])]

\* No read has failed, none has completed before one started earlier, no
\* gallery image was removed.
NoReadLog == [failed |-> FALSE, outOfOrder |-> FALSE, removed |-> FALSE]

\* The second form instance has no submission under way.
NoOther == [pc |-> "idle", count |-> -1]

\* No file was selected, no read is in progress, no preview is shown.
NothingStaged ==
    /\ picked = [logo |-> NoFile, heroImage |-> NoFile, thumbnail |-> NoFile]
    /\ reads = {}
    /\ galleryReads = <<>>
    /\ readLog = NoReadLog
    /\ logoPreview = "" /\ heroImagePreview = ""
    /\ projectImagePreviews = <<>>
    /\ thumbnailPreview = ""

\* What lies outside the form's own state while a form is on screen: the
\* session is resolved and authenticated, the path is the form's route, each
\* slot's input holds the file that is staged, no read is in progress and the
\* previews are those of the staged files.
InitWorld ==
    /\ path = FormPath(kind, mode, id)
    /\ authLoading = FALSE
    /\ isAuthenticated = TRUE
    /\ hops = NoHops
    /\ featuredIds = {}
    /\ other = NoOther
    /\ picked = [logo |-> logoFile, heroImage |-> heroImageFile,
                 thumbnail |-> thumbnailFile]
    /\ reads = {}
    /\ galleryReads = <<>>
    /\ readLog = NoReadLog
    /\ logoPreview = PreviewOf(logoFile)
    /\ heroImagePreview = PreviewOf(heroImageFile)
    /\ projectImagePreviews = PreviewsOf(projectImageFiles)
    /\ thumbnailPreview = PreviewOf(thumbnailFile)

\* useForm's defaultValues, and "" for the text controls registered on mount.
ProjectDefaults ==
    [name |-> "", tagline |-> "", description |-> "",
     categories |-> UndefinedList,
     website |-> Undefined,
     isHiring |-> FALSE, careerPageUrl |-> Undefined,
     isOpenForBounty |-> FALSE, bountySubmissionUrl |-> Undefined,
     isOpenSource |-> FALSE, githubUrl |-> Undefined,
     includeSocialLinks |-> AllFalse,
     socialLinks |-> [p \in Platforms |-> ""],
     featured |-> FALSE,
     status |-> "UNPUBLISHED"]

NoHist == [cat |-> Undefined, before |-> {}, n |-> 0]

\* The project form after mount: the [mode, id] effect has started fetchProject
\* in edit mode (setLoading(true), the request in flight).
InitProjectForm ==
    /\ kind = "project"
    /\ \/ mode = "create" /\ id = NoId
       \/ mode = "edit" /\ id \in RouteIds
    /\ draft = ProjectDefaults
    /\ selectedCategories = <<>>
    /\ socialLinksSelection = AllFalse
    /\ loading = (mode = "edit")
    /\ loadPc = IF mode = "edit" THEN "fetching" ELSE "none"
    /\ categories = {}
    /\ categoriesPc = "fetching"
    /\ location = "form"
    /\ InitIdle
    /\ projectsPc = "none"
    /\ toggleHist = NoHist
    /\ InitWorld

(***************************************************************************)
(* The backend's answers                                                   *)
(***************************************************************************)

NoLinks == [p \in Platforms |-> Undefined]

\* Projects apiService.getProject may return.
BackendProjects ==
    { [name |-> "Foo", tagline |-> "bar",
       description |-> "a sufficiently long description",
       categories |-> <<"DeFi">>, featured |-> FALSE, status |-> "PUBLISHED",
       isHiring |-> TRUE, careerPageUrl |-> "https://foo.io/x",
       isOpenForBounty |-> FALSE, bountySubmissionUrl |-> Undefined,
       isOpenSource |-> FALSE, githubUrl |-> Undefined,
       logo |-> "logo-url", heroImage |-> Undefined, images |-> <<"img-url">>,
       socialLinks |-> [NoLinks EXCEPT !["twitter"] = "https://foo.io/x"]],
      [name |-> "Foo", tagline |-> "bar",
       description |-> "a sufficiently long description",
       categories |-> <<"NFT", "DeFi">>, featured |-> TRUE, status |-> "UNPUBLISHED",
       isHiring |-> FALSE, careerPageUrl |-> "https://foo.io/x",
       isOpenForBounty |-> TRUE, bountySubmissionUrl |-> Undefined,
       isOpenSource |-> FALSE, githubUrl |-> "not a url",
       logo |-> Undefined, heroImage |-> "hero-url", images |-> <<>>,
       socialLinks |-> NoLinks],
      [name |-> "Foo", tagline |-> "bar",
       description |-> "a sufficiently long description",
       categories |-> <<"DeFi">>, featured |-> FALSE, status |-> "PUBLISHED",
       isHiring |-> FALSE, careerPageUrl |-> "https://foo.io/x",
       isOpenForBounty |-> FALSE, bountySubmissionUrl |-> Undefined,
       isOpenSource |-> FALSE, githubUrl |-> Undefined,
       logo |-> "logo-url", heroImage |-> Undefined, images |-> UndefinedList,
       socialLinks |-> NoLinks] }

(***************************************************************************)
(* Editing the project draft                                               *)
(***************************************************************************)

\* The form is on screen: the route is the form's, and VideoForm does not
\* show its spinner instead, if (loading && mode === "edit").
FormShown ==
    /\ location = "form"
    /\ ~(kind = "video" /\ mode = "edit" /\ loading)

TextInputs == [name |-> NameInputs, tagline |-> TaglineInputs,
               description |-> DescriptionInputs]

\* <input {...register("name")} />, tagline, description: the user types v.
SetText(f, v) ==
    /\ kind = "project" /\ FormShown
    /\ draft[f] # v
    /\ draft' = [draft EXCEPT ![f] = v]
    /\ UNCHANGED <<kind, mode, id, selectedCategories, socialLinksSelection,
                   loading, loadPc, categories, categoriesPc, location>>

\* The form values after <select {...register("isHiring", {setValueAs})}> is
\* set to b: a flag turned on mounts its URL input, whose registration sets a
\* value that is still undefined to the control's "".
FlagSet(d, u, b) ==
    [d EXCEPT ![FlagOf[u]] = b,
              ![u] = IF b /\ d[u] = Undefined THEN "" ELSE d[u]]

SetFlag(u, b) ==
    /\ kind = "project" /\ FormShown
    /\ draft[FlagOf[u]] # b
    /\ draft' = FlagSet(draft, u, b)
    /\ UNCHANGED <<kind, mode, id, selectedCategories, socialLinksSelection,
                   loading, loadPc, categories, categoriesPc, location>>

\* The URL input of a flag that is on: the user types v.
SetConditionalUrl(u, v) ==
    /\ kind = "project" /\ FormShown
    /\ draft[FlagOf[u]]
    /\ draft[u] # v
    /\ draft' = [draft EXCEPT ![u] = v]
    /\ UNCHANGED <<kind, mode, id, selectedCategories, socialLinksSelection,
                   loading, loadPc, categories, categoriesPc, location>>

\* <input {...register("featured")} type="checkbox" />
SetFeatured(b) ==
    /\ FormShown
    /\ draft.featured # b
    /\ draft' = [draft EXCEPT !.featured = b]
    /\ UNCHANGED <<kind, mode, id, selectedCategories, socialLinksSelection,
                   loading, loadPc, categories, categoriesPc, location>>

\* <select {...register("status")}>
SetStatus(s) ==
    /\ kind = "project" /\ FormShown
    /\ draft.status # s
    /\ draft' = [draft EXCEPT !.status = s]
    /\ UNCHANGED <<kind, mode, id, selectedCategories, socialLinksSelection,
                   loading, loadPc, categories, categoriesPc, location>>

\* Mutant of ToggledCategories: a selected category is not removed.
ToggledCategoriesNoRemove(sel, c) ==
    IF c \in SetOf(sel) THEN sel ELSE Append(sel, c)

\* updatedCategories of toggleCategory.
ToggledCategories(sel, c) ==
    IF c \in SetOf(sel) THEN SelectSeq(sel, LAMBDA x : x # c) ELSE Append(sel, c)

\* toggleCategory(categoryName): one button per fetched category.
toggleCategory(c) ==
    /\ kind = "project" /\ FormShown
    /\ c \in categories
    /\ selectedCategories' = ToggledCategories(selectedCategories, c)
    /\ draft' = [draft EXCEPT !.categories = ToggledCategories(selectedCategories, c)]
    /\ UNCHANGED <<kind, mode, id, socialLinksSelection,
                   loading, loadPc, categories, categoriesPc, location>>

\* updated of toggleSocialLink.
ToggledSelection(sel, p) == [sel EXCEPT ![p] = ~sel[p]]

\* toggleSocialLink(platform)
toggleSocialLink(p) ==
    /\ kind = "project" /\ FormShown
    /\ socialLinksSelection' = ToggledSelection(socialLinksSelection, p)
    /\ draft' = [draft EXCEPT !.includeSocialLinks[p] =
                                  ToggledSelection(socialLinksSelection, p)[p]]
    /\ UNCHANGED <<kind, mode, id, selectedCategories,
                   loading, loadPc, categories, categoriesPc, location>>

\* The URL input of a selected platform: the user types v.
SetSocialUrl(p, v) ==
    /\ kind = "project" /\ FormShown
    /\ socialLinksSelection[p]
    /\ draft.socialLinks[p] # v
    /\ draft' = [draft EXCEPT !.socialLinks[p] = v]
    /\ UNCHANGED <<kind, mode, id, selectedCategories, socialLinksSelection,
                   loading, loadPc, categories, categoriesPc, location>>

\* fetchCategories: the request returns the category list, or fails (logged).
FetchCategoriesReturns ==
    /\ kind = "project" /\ categoriesPc = "fetching"
    /\ categoriesPc' = "done"
    /\ categories' = CategoryNames
    /\ UNCHANGED <<kind, mode, id, draft, selectedCategories, socialLinksSelection,
                   loading, loadPc, location>>

FetchCategoriesFails ==
    /\ kind = "project" /\ categoriesPc = "fetching"
    /\ categoriesPc' = "failed"
    /\ UNCHANGED <<kind, mode, id, draft, selectedCategories, socialLinksSelection,
                   loading, loadPc, categories, location>>

\* project.isHiring || !!project.careerPageUrl
LoadedFlag(project, u) == project[FlagOf[u]] \/ Truthy(project[u])

\* project.careerPageUrl || ""
OrEmpty(v) == IF Truthy(v) THEN v ELSE ""

\* include of fetchProject: !!social.website, ...
LoadedSelection(project) == [p \in Platforms |-> Truthy(project.socialLinks[p])]

\* Mutant of LoadedProjectDraft: the includeSocialLinks flags are not set.
LoadedProjectDraftKeepsInclude(d, project) ==
    [d EXCEPT !.name = project.name,
              !.tagline = project.tagline,
              !.description = project.description,
              !.categories = project.categories,
              !.featured = project.featured,
              !.status = project.status,
              !.isHiring = LoadedFlag(project, "careerPageUrl"),
              !.careerPageUrl = OrEmpty(project.careerPageUrl),
              !.isOpenForBounty = LoadedFlag(project, "bountySubmissionUrl"),
              !.bountySubmissionUrl = OrEmpty(project.bountySubmissionUrl),
              !.isOpenSource = LoadedFlag(project, "githubUrl"),
              !.githubUrl = OrEmpty(project.githubUrl),
              !.socialLinks = [p \in Platforms |-> OrEmpty(project.socialLinks[p])]]

\* The form values after fetchProject's setValue calls.
LoadedProjectDraft(d, project) ==
    [d EXCEPT !.name = project.name,
              !.tagline = project.tagline,
              !.description = project.description,
              !.categories = project.categories,
              !.featured = project.featured,
              !.status = project.status,
              !.isHiring = LoadedFlag(project, "careerPageUrl"),
              !.careerPageUrl = OrEmpty(project.careerPageUrl),
              !.isOpenForBounty = LoadedFlag(project, "bountySubmissionUrl"),
              !.bountySubmissionUrl = OrEmpty(project.bountySubmissionUrl),
              !.isOpenSource = LoadedFlag(project, "githubUrl"),
              !.githubUrl = OrEmpty(project.githubUrl),
              !.includeSocialLinks = LoadedSelection(project),
              !.socialLinks = [p \in Platforms |-> OrEmpty(project.socialLinks[p])]]

\* Array.isArray(project.images)
IsArray(v) == v # UndefinedList

\* fetchProject after apiService.getProject(id) resolved with project.
FetchProjectReturns(project) ==
    /\ kind = "project" /\ loadPc = "fetching"
    /\ draft' = LoadedProjectDraft(draft, project)
    /\ selectedCategories' = project.categories
    /\ socialLinksSelection' = LoadedSelection(project)
    /\ logoPreview' = OrEmpty(project.logo)
    /\ heroImagePreview' = OrEmpty(project.heroImage)
    /\ projectImagePreviews' = IF IsArray(project.images) THEN project.images
                               ELSE projectImagePreviews
    /\ loading' = FALSE
    /\ loadPc' = "done"
    /\ UNCHANGED <<kind, mode, id, categories, categoriesPc, location, thumbnailPreview>>

\* Mutant of FetchProjectFails: no finally block.
FetchProjectFailsNoFinally ==
    /\ kind = "project" /\ loadPc = "fetching"
    /\ loadPc' = "failed"
    /\ UNCHANGED <<kind, mode, id, draft, selectedCategories, socialLinksSelection,
                   loading, categories, categoriesPc, location, previewVars>>

\* fetchProject after apiService.getProject(id) rejected: logged, finally.
FetchProjectFails ==
    /\ kind = "project" /\ loadPc = "fetching"
    /\ loading' = FALSE
    /\ loadPc' = "failed"
    /\ UNCHANGED <<kind, mode, id, draft, selectedCategories, socialLinksSelection,
                   categories, categoriesPc, location, previewVars>>

(***************************************************************************)
(* SpecDraft: the project form's validated fields under editing            *)
(***************************************************************************)

InitDraft == InitProjectForm

NextDraft ==
    \/ \E f \in DOMAIN TextInputs : \E v \in TextInputs[f] :
          SetText(f, v) /\ UNCHANGED <<fileVars, submitVars, toggleHist, worldVars>>
    \/ \E u \in ConditionalUrls : \E b \in BOOLEAN :
          SetFlag(u, b) /\ UNCHANGED <<fileVars, submitVars, toggleHist, worldVars>>
    \/ \E u \in ConditionalUrls : \E v \in UrlInputs :
          SetConditionalUrl(u, v) /\ UNCHANGED <<fileVars, submitVars, toggleHist, worldVars>>
    \/ \E p \in Platforms : \E v \in UrlInputs :
          SetSocialUrl(p, v) /\ UNCHANGED <<fileVars, submitVars, toggleHist, worldVars>>
    \/ \E c \in CategoryNames : toggleCategory(c) /\ UNCHANGED <<fileVars, submitVars, toggleHist, worldVars>>
    \/ FetchCategoriesReturns /\ UNCHANGED <<fileVars, submitVars, toggleHist, worldVars>>
    \/ FetchCategoriesFails /\ UNCHANGED <<fileVars, submitVars, toggleHist, worldVars>>
    \/ \E project \in BackendProjects :
          FetchProjectReturns(project) /\ UNCHANGED <<fileVars, submitVars, toggleHist, outerVars>>
    \/ FetchProjectFails /\ UNCHANGED <<fileVars, submitVars, toggleHist, worldVars>>

SpecDraft == InitDraft /\ [][NextDraft]_vars

FieldErrors == ProjectFieldErrors(draft, socialLinksSelection)

Validates(d) == ProjectValidate(d, socialLinksSelection)

\* C3: for each of the three flag/URL pairs, Validate rejects the draft when
\* the flag is true and the URL is empty or absent, and when the flag is false
\* it reports no required error on the URL and accepts the draft with an empty
\* (or absent) URL exactly when it accepts it with a URL filled in.
C3_ConditionalUrlRequiredIffFlag ==
    \A u \in ConditionalUrls :
        /\ (draft[FlagOf[u]] /\ draft[u] \in {Undefined, ""}) => ~Validates(draft)
        /\ \A v \in {Undefined, ""} :
              ~Validates([draft EXCEPT ![FlagOf[u]] = TRUE, ![u] = v])
        /\ ~draft[FlagOf[u]] =>
              /\ Err(u, "required") \notin FieldErrors
              /\ \A v \in {Undefined, ""} :
                    Validates([draft EXCEPT ![u] = v])
                      <=> Validates([draft EXCEPT ![u] = "https://foo.io/x"])

\* A draft that is valid but for one conditional URL, whose flag was turned on
\* and whose input was left empty.
C3_Witness ==
    \E u \in ConditionalUrls :
        /\ draft[FlagOf[u]] /\ draft[u] = ""
        /\ Validates([draft EXCEPT ![u] = "https://foo.io/x"])
        /\ ~Validates(draft)

\* The minimal draft of C4: name, tagline, a description of 10 characters or
\* more, one category, no flag set, no URL filled in, no platform selected.
MinimalDraft(d, sel) ==
    /\ Truthy(d.name) /\ Truthy(d.tagline)
    /\ d.description # Undefined /\ Len(d.description) >= 10
    /\ d.categories # UndefinedList /\ Len(d.categories) = 1
    /\ \A u \in ConditionalUrls : ~d[FlagOf[u]] /\ ~Truthy(d[u])
    /\ \A p \in Platforms : ~sel[p] /\ ~Truthy(d.socialLinks[p])
    /\ ~Truthy(d.website)

\* C4: Validate rejects every draft whose category set is empty (never set, or
\* emptied again), and accepts the minimal draft.
C4_CategoriesRequired ==
    /\ (draft.categories = UndefinedList \/ Len(draft.categories) = 0)
          => ~Validates(draft)
    /\ MinimalDraft(draft, socialLinksSelection) => Validates(draft)

\* The user has reached the minimal draft, and it validates.
C4_Witness ==
    /\ MinimalDraft(draft, socialLinksSelection)
    /\ Validates(draft)
    /\ mode = "create"

\* C7: for a draft that is valid once careerPageUrl is filled in, with isHiring
\* true and careerPageUrl empty, validation fails and the field errors are a
\* required error on careerPageUrl and nothing else.
C7_RequiredErrorOnCareerPageUrlOnly ==
    ( /\ draft.isHiring /\ draft.careerPageUrl = ""
      /\ Validates([draft EXCEPT !.careerPageUrl = "https://foo.io/x"]) )
    => FieldErrors = {Err("careerPageUrl", "required")}

\* isHiring was set to true on an otherwise valid draft in create mode and the
\* URL input left empty.
C7_Witness ==
    /\ mode = "create"
    /\ draft.isHiring /\ draft.careerPageUrl = ""
    /\ Validates([draft EXCEPT !.careerPageUrl = "https://foo.io/x"])
    /\ FieldErrors # {}


\* C29 as stated: a conditional URL field whose flag is false has no field
\* error, and the draft is accepted whenever it is accepted with that field
\* emptied, whatever value is left in the field.
C29_FalseFlagUrlNeverRejects ==
    \A u \in ConditionalUrls :
        ~draft[FlagOf[u]] =>
            /\ \A e \in FieldErrors : e.field # u
            /\ Validates([draft EXCEPT ![u] = ""]) => Validates(draft)

(***************************************************************************)
(* SpecToggle: the toggles of the project form                             *)
(***************************************************************************)

\* Observer: toggleCategory(c) with the selected set before it, and whether it
\* is the first or the second toggle of c in a row.
ToggleObserved(c) ==
    toggleHist' =
        IF toggleHist.cat = c /\ toggleHist.n = 1
        THEN [toggleHist EXCEPT !.n = 2]
        ELSE [cat |-> c, before |-> SetOf(selectedCategories), n |-> 1]

NextToggle ==
    \/ \E c \in CategoryNames : toggleCategory(c) /\ ToggleObserved(c)
            /\ UNCHANGED <<fileVars, submitVars, worldVars>>
    \/ \E p \in Platforms : toggleSocialLink(p) /\ UNCHANGED <<fileVars, submitVars, toggleHist, worldVars>>
    \/ \E b \in BOOLEAN : SetFeatured(b) /\ UNCHANGED <<fileVars, submitVars, toggleHist, worldVars>>
    \/ \E s \in {"PUBLISHED", "UNPUBLISHED"} : SetStatus(s) /\ UNCHANGED <<fileVars, submitVars, toggleHist, worldVars>>
    \/ FetchCategoriesReturns /\ UNCHANGED <<fileVars, submitVars, toggleHist, worldVars>>
    \/ FetchCategoriesFails /\ UNCHANGED <<fileVars, submitVars, toggleHist, worldVars>>
    \/ \E project \in BackendProjects :
          FetchProjectReturns(project) /\ toggleHist' = NoHist
            /\ UNCHANGED <<fileVars, submitVars, outerVars>>
    \/ FetchProjectFails /\ UNCHANGED <<fileVars, submitVars, toggleHist, worldVars>>

SpecToggle == InitProjectForm /\ [][NextToggle]_vars

\* C6: after toggleCategory(c) was applied twice in a row to a selected set S,
\* the locally held selection and the form's categories field both hold S
\* again, as sets.
C6_ToggleCategoryTwice ==
    toggleHist.n = 2 =>
        /\ SetOf(selectedCategories) = toggleHist.before
        /\ SetOf(draft.categories) = toggleHist.before

\* A category of a non-empty selection was toggled twice.
C6_Witness ==
    /\ toggleHist.n = 2
    /\ toggleHist.before # {}
    /\ toggleHist.cat \in toggleHist.before

\* C19 as stated: the form's categories field holds a list that has the
\* members of the locally held selection, and the form's includeSocialLinks
\* flags are the locally held inclusion flags.
C19_SelectionsInSync ==
    /\ draft.categories # UndefinedList
    /\ SetOf(draft.categories) = SetOf(selectedCategories)
    /\ \A p \in Platforms : draft.includeSocialLinks[p] = socialLinksSelection[p]

\* C19, amended: the form's includeSocialLinks flags are the locally held
\* inclusion flags; the form's categories field is absent, and the locally
\* held selection empty, until a category is toggled or the load completes,
\* and from then on the field is the locally held selection.
C19_SelectionsInSyncOnceSet ==
    /\ \A p \in Platforms : draft.includeSocialLinks[p] = socialLinksSelection[p]
    /\ draft.categories = UndefinedList => selectedCategories = <<>>
    /\ draft.categories # UndefinedList => draft.categories = selectedCategories

\* After the load and toggles of both kinds, two categories are selected and
\* a platform is included.
C19_Witness ==
    /\ loadPc = "done"
    /\ toggleHist.n >= 1
    /\ Len(selectedCategories) = 2
    /\ draft.categories = selectedCategories
    /\ \E p \in Platforms : socialLinksSelection[p] /\ draft.includeSocialLinks[p]
    /\ \E p \in Platforms : ~socialLinksSelection[p]

(***************************************************************************)
(* The video form                                                          *)
(***************************************************************************)

\* useForm's defaultValues, and "" for the controls registered on mount.
VideoDefaults ==
    [title |-> "", description |-> "", playbackId |-> "",
     thumbnail |-> Undefined, featured |-> FALSE, projectId |-> ""]

\* videoSchema: the field errors zodResolver reports for form values d.
VideoSchemaErrors(d) ==
    RequiredString("title", d.title)
    \cup RequiredString("playbackId", d.playbackId)
    \cup RequiredString("projectId", d.projectId)

\* Projects apiService.getPublishedProjects returns (their ids).
PublishedProjects == {"pr1", "pr2"}

\* Videos apiService.getVideo may return.
BackendVideos ==
    { [title |-> "Intro", description |-> Undefined, playbackId |-> "pb1",
       thumbnail |-> "thumb-url", featured |-> FALSE, projectId |-> "pr1"],
      [title |-> "Demo", description |-> "about", playbackId |-> "pb2",
       thumbnail |-> "thumb-url", featured |-> TRUE, projectId |-> "pr9"] }

\* The form values after fetchVideo's setValue calls.
LoadedVideoDraft(d, video) ==
    [d EXCEPT !.title = video.title,
              !.description = OrEmpty(video.description),
              !.playbackId = video.playbackId,
              !.thumbnail = video.thumbnail,
              !.featured = video.featured,
              !.projectId = video.projectId]

\* VideoForm.fetchProjects after getPublishedProjects resolved.
FetchProjectsReturns ==
    /\ kind = "video" /\ projectsPc = "fetching"
    /\ projects' = PublishedProjects
    /\ projectsPc' = "done"
    /\ UNCHANGED <<formVars, fileVars, runs, toggleHist, worldVars>>

\* VideoForm.fetchProjects after getPublishedProjects rejected: logged.
FetchProjectsFails ==
    /\ kind = "video" /\ projectsPc = "fetching"
    /\ projectsPc' = "failed"
    /\ UNCHANGED <<formVars, fileVars, projects, runs, toggleHist, worldVars>>

\* fetchVideo after apiService.getVideo(id) resolved with video.
FetchVideoReturns(video) ==
    /\ kind = "video" /\ loadPc = "fetching"
    /\ draft' = LoadedVideoDraft(draft, video)
    /\ thumbnailPreview' = video.thumbnail
    /\ loading' = FALSE
    /\ loadPc' = "done"
    /\ UNCHANGED <<kind, mode, id, selectedCategories, socialLinksSelection,
                   categories, categoriesPc, location, fileVars, submitVars,
                   toggleHist, outerVars, logoPreview, heroImagePreview,
                   projectImagePreviews>>

\* fetchVideo after apiService.getVideo(id) rejected: logged, finally.
FetchVideoFails ==
    /\ kind = "video" /\ loadPc = "fetching"
    /\ loading' = FALSE
    /\ loadPc' = "failed"
    /\ UNCHANGED <<kind, mode, id, draft, selectedCategories, socialLinksSelection,
                   categories, categoriesPc, location, fileVars, submitVars,
                   toggleHist, worldVars>>

\* videoData: thumbnail: thumbnailUrl || data.thumbnail
VideoData(data, thumbnailUrl) ==
    [data EXCEPT !.thumbnail = IF Truthy(thumbnailUrl) THEN thumbnailUrl ELSE data.thumbnail]

(***************************************************************************)
(* onSubmit                                                                *)
(***************************************************************************)

\* The cap of the featured check: counts.projects >= 3, counts.videos >= 3.
FeaturedCap == 3

\* The largest count getFeaturedCounts answers with.
MaxCount == 4

\* result.url of an upload of file f.
UploadedUrl(f) == "https://cdn/" \o f

\* navigate("/projects"), navigate("/videos")
Collection(k) == IF k = "project" THEN "/projects" ELSE "/videos"

\* The controls' constraints that gate the submit event.
InputErrors(k, d, sel) == IF k = "project" THEN ProjectInputErrors(d, sel) ELSE {}

\* zodResolver(projectSchema), zodResolver(videoSchema)
SchemaErrors(k, d) == IF k = "project" THEN ProjectSchemaErrors(d) ELSE VideoSchemaErrors(d)

\* Mutant of CapReached: the tests are > 3.
CapReachedAbove(m, n) ==
    \/ n > FeaturedCap /\ m = "create"
    \/ n > FeaturedCap /\ m = "edit"

\* Mutant of CapReached: the edit-mode test is missing.
CapReachedCreateOnly(m, n) == n >= FeaturedCap /\ m = "create"

\* Mutant of CapReached: the result of the tests is not used.
CapReachedNever(m, n) == FALSE

\* The two tests on the counts: >= 3 && mode === "create", >= 3 && mode === "edit".
CapReached(m, n) ==
    \/ n >= FeaturedCap /\ m = "create"
    \/ n >= FeaturedCap /\ m = "edit"

\* Mutant of ProjectUploadSteps: the folder call comes after the uploads.
ProjectUploadStepsFolderLast(files) ==
    (IF files.logo # NoFile THEN <<"logo">> ELSE <<>>)
    \o (IF files.heroImage # NoFile THEN <<"heroImage">> ELSE <<>>)
    \o (IF Len(files.projectImages) > 0 THEN <<"projectImages">> ELSE <<>>)
    \o <<"folder">>

\* uploadFiles: the folder call, then one upload per staged slot.
ProjectUploadSteps(files) ==
    <<"folder">>
    \o (IF files.logo # NoFile THEN <<"logo">> ELSE <<>>)
    \o (IF files.heroImage # NoFile THEN <<"heroImage">> ELSE <<>>)
    \o (IF Len(files.projectImages) > 0 THEN <<"projectImages">> ELSE <<>>)

\* uploadThumbnail: the folder call and the upload, if a thumbnail is staged.
VideoUploadSteps(files) ==
    IF files.thumbnail # NoFile THEN <<"folder", "thumbnail">> ELSE <<>>

\* Mutant of SaveOp: the create call in either mode.
SaveOpAlwaysCreate(k, m, i) ==
    IF k = "project" THEN "createProject" ELSE "createVideo"

\* if (mode === "create") create... else if (id) update...
SaveOp(k, m, i) ==
    IF m = "create" THEN (IF k = "project" THEN "createProject" ELSE "createVideo")
    ELSE IF i # NoId THEN (IF k = "project" THEN "updateProject" ELSE "updateVideo")
    ELSE "none"

\* The apiService call of an upload step.
CallOf(k, step) ==
    CASE step = "folder" ->
           IF k = "project" THEN "createProjectFolders" ELSE "createVideoFolder"
      [] step = "logo" -> "uploadFile(logo)"
      [] step = "heroImage" -> "uploadFile(project-hero-image)"
      [] step = "projectImages" -> "uploadMultipleFiles(project-image)"
      [] step = "thumbnail" -> "uploadVideoThumbnail"

\* What an upload step stores once its call resolved.
UploadResult(run, step) ==
    CASE step = "folder" -> run.uploads
      [] step = "logo" ->
           [run.uploads EXCEPT !.logo = UploadedUrl(run.files.logo)]
      [] step = "heroImage" ->
           [run.uploads EXCEPT !.heroImage = UploadedUrl(run.files.heroImage)]
      [] step = "projectImages" ->
           [run.uploads EXCEPT !.projectImages =
               [j \in DOMAIN run.files.projectImages |->
                   UploadedUrl(run.files.projectImages[j])]]
      [] step = "thumbnail" ->
           [run.uploads EXCEPT !.thumbnail = UploadedUrl(run.files.thumbnail)]

\* projectData, videoData
Payload(k, run) ==
    IF k = "project" THEN ProjectData(run.data, run.uploads)
    ELSE VideoData(run.data, run.uploads.thumbnail)

\* Mutant of Failed: navigate is reached after the catch.
FailedThenNavigates(run, step) ==
    [run EXCEPT !.pc = "done", !.outcome = "failed", !.failedAt = step,
                !.nav = "/projects"]

\* catch (error) { console.error(...) } finally { setLoading(false) }
Failed(run, step) ==
    [run EXCEPT !.pc = "done", !.outcome = "failed", !.failedAt = step]

\* toast.error("Only 3 featured ... are allowed"); setLoading(false); return
Rejected(run) ==
    [run EXCEPT !.pc = "done", !.outcome = "rejected", !.toast = "error"]

\* toast.success(...); navigate(...); finally { setLoading(false) }
Saved(run, k) ==
    [run EXCEPT !.pc = "done", !.outcome = "saved", !.toast = "success",
                !.nav = Collection(k)]

\* After the save without a call (edit mode without an id): navigate.
Skipped(run, k) ==
    [run EXCEPT !.pc = "done", !.outcome = "skipped", !.nav = Collection(k)]

\* The handler runs on to its next await: the next upload step's call, or the
\* create / update call once the uploads are through.
Proceed(run, k, m, i) ==
    IF run.todo # <<>>
    THEN [run EXCEPT !.pc = Head(run.todo),
                     !.todo = Tail(run.todo),
                     !.calls = Append(run.calls, CallOf(k, Head(run.todo)))]
    ELSE IF SaveOp(k, m, i) = "none" THEN Skipped(run, k)
    ELSE [run EXCEPT !.pc = "save",
                     !.calls = Append(run.calls, SaveOp(k, m, i)),
                     !.save = [op |-> SaveOp(k, m, i), id |-> i,
                               payload |-> Payload(k, run)]]

\* Mutant of AfterFeaturedCheck: VideoForm does not look the project up.
AfterFeaturedCheckNoLookup(run, k, m, i) ==
    IF k = "project"
    THEN Proceed([run EXCEPT !.todo = ProjectUploadSteps(run.files)], k, m, i)
    ELSE Proceed([run EXCEPT !.todo = VideoUploadSteps(run.files)], k, m, i)

\* The handler past the featured check. VideoForm: projects.find(...), throw
\* if the selected project is not in the list.
AfterFeaturedCheck(run, k, m, i) ==
    IF k = "project"
    THEN Proceed([run EXCEPT !.todo = ProjectUploadSteps(run.files)], k, m, i)
    ELSE IF run.data.projectId \notin run.projects
         THEN Failed(run, "lookup")
         ELSE Proceed([run EXCEPT !.todo = VideoUploadSteps(run.files)], k, m, i)

\* try { const counts = await getFeaturedCounts(); ... } catch {}
AfterCountsFailed(run, k, m, i) ==
    AfterFeaturedCheck([run EXCEPT !.countFailed = TRUE], k, m, i)

\* The handler after getFeaturedCounts resolved with count n.
AfterCounts(run, k, m, i, n) ==
    IF CapReached(m, n) THEN Rejected([run EXCEPT !.count = n])
    ELSE AfterFeaturedCheck([run EXCEPT !.count = n], k, m, i)

\* onSubmit(data) up to its first await: setLoading(true), the featured check.
StartHandler(run, k, m, i) ==
    IF run.data.featured
    THEN [run EXCEPT !.pc = "counts", !.calls = <<"getFeaturedCounts">>]
    ELSE AfterFeaturedCheck(run, k, m, i)

\* Mutant of AfterResolver: onSubmit is called whatever the resolver answered.
AfterResolverIgnoresErrors(run, k, m, i) == StartHandler(run, k, m, i)

\* handleSubmit once the resolver answered: onSubmit(data) if there are no
\* errors, else the errors are put in formState.
AfterResolver(run, k, m, i) ==
    IF SchemaErrors(k, run.data) # {}
    THEN [run EXCEPT !.pc = "done", !.outcome = "invalid",
                     !.errors = SchemaErrors(k, run.data)]
    ELSE StartHandler(run, k, m, i)

StagedFiles ==
    [logo |-> logoFile, heroImage |-> heroImageFile,
     projectImages |-> projectImageFiles, thumbnail |-> thumbnailFile]

\* The run of handleSubmit a submit event starts: the form values, and the
\* state the handler's closure holds, as of the event.
NewRun ==
    [IdleRun EXCEPT !.pc = "validating", !.data = draft, !.files = StagedFiles,
                    !.projects = projects]

InHandler(run) == run.pc \notin {"idle", "validating", "done"}

FreeRuns == {r \in Runs : runs[r].pc \in {"idle", "done"}}

\* disabled={loading} on the submit button
SubmitEnabled(l) == ~l

\* The submit event: the button is enabled and every rendered control passes
\* the browser's constraint validation; handleSubmit starts the resolver.
SubmitEvent(r) ==
    /\ FormShown
    /\ SubmitEnabled(loading)
    /\ InputErrors(kind, draft, socialLinksSelection) = {}
    /\ r \in FreeRuns /\ \A q \in FreeRuns : r <= q
    /\ runs' = [runs EXCEPT ![r] = NewRun]
    /\ UNCHANGED <<formVars, fileVars, projects, projectsPc, toggleHist, worldVars>>

\* Mutant of HandlerStep: no finally block, loading is reset only by the cap
\* rejection.
HandlerStepNoFinally(r, newRun, started) ==
    /\ runs' = [runs EXCEPT ![r] = newRun]
    /\ loading' = IF newRun.outcome = "rejected" THEN FALSE
                  ELSE IF started /\ newRun.outcome # "invalid" THEN TRUE
                  ELSE loading
    /\ location' = IF newRun.nav # "none" THEN newRun.nav ELSE location
    /\ UNCHANGED <<kind, mode, id, draft, selectedCategories, socialLinksSelection,
                   loadPc, categories, categoriesPc, fileVars, projects, projectsPc,
                   toggleHist, worldVars>>

\* Mutant of HandlerStep: the handler's continuation runs only while the form
\* is on screen.
HandlerStepWhileMounted(r, newRun, started) ==
    /\ location = "form"
    /\ runs' = [runs EXCEPT ![r] = newRun]
    /\ loading' = IF newRun.outcome = "invalid" THEN loading
                  ELSE IF newRun.pc = "done" THEN FALSE
                  ELSE IF started THEN TRUE
                  ELSE loading
    /\ location' = IF newRun.nav # "none" THEN newRun.nav ELSE location
    /\ UNCHANGED <<kind, mode, id, draft, selectedCategories, socialLinksSelection,
                   loadPc, categories, categoriesPc, fileVars, projects, projectsPc,
                   toggleHist, worldVars>>

\* Mutant of HandlerStep: the catch block resets the staged files.
HandlerStepResetsFiles(r, newRun, started) ==
    /\ runs' = [runs EXCEPT ![r] = newRun]
    /\ loading' = IF newRun.outcome = "invalid" THEN loading
                  ELSE IF newRun.pc = "done" THEN FALSE
                  ELSE IF started THEN TRUE
                  ELSE loading
    /\ location' = IF newRun.nav # "none" THEN newRun.nav ELSE location
    /\ logoFile' = IF newRun.outcome = "failed" THEN NoFile ELSE logoFile
    /\ UNCHANGED <<kind, mode, id, draft, selectedCategories, socialLinksSelection,
                   loadPc, categories, categoriesPc, heroImageFile,
                   projectImageFiles, thumbnailFile, projects, projectsPc,
                   toggleHist, worldVars>>

\* The effects of a step that took run r to newRun: setLoading(true) when the
\* step started the handler, setLoading(false) when it returned from it, and
\* navigate.
HandlerStep(r, newRun, started) ==
    /\ runs' = [runs EXCEPT ![r] = newRun]
    /\ loading' = IF newRun.outcome = "invalid" THEN loading
                  ELSE IF newRun.pc = "done" THEN FALSE
                  ELSE IF started THEN TRUE
                  ELSE loading
    /\ location' = IF newRun.nav # "none" THEN newRun.nav ELSE location
    /\ UNCHANGED <<kind, mode, id, draft, selectedCategories, socialLinksSelection,
                   loadPc, categories, categoriesPc, fileVars, projects, projectsPc,
                   toggleHist, worldVars>>

\* The resolver's promise settles.
ResolverReturns(r) ==
    /\ runs[r].pc = "validating"
    /\ HandlerStep(r, AfterResolver(runs[r], kind, mode, id), TRUE)

\* getFeaturedCounts resolves with n featured entities of the form's kind.
CountsReturns(r, n) ==
    /\ runs[r].pc = "counts"
    /\ HandlerStep(r, AfterCounts(runs[r], kind, mode, id, n), FALSE)

\* getFeaturedCounts rejects.
CountsFails(r) ==
    /\ runs[r].pc = "counts"
    /\ HandlerStep(r, AfterCountsFailed(runs[r], kind, mode, id), FALSE)

UploadPcs == {"folder", "logo", "heroImage", "projectImages", "thumbnail"}

\* The folder call or an upload resolves.
UploadReturns(r) ==
    /\ runs[r].pc \in UploadPcs
    /\ HandlerStep(r, Proceed([runs[r] EXCEPT !.uploads = UploadResult(runs[r], runs[r].pc)],
                              kind, mode, id), FALSE)

\* The create / update call resolves.
SaveReturns(r) ==
    /\ runs[r].pc = "save"
    /\ HandlerStep(r, Saved(runs[r], kind), FALSE)

\* The folder call, an upload or the create / update call rejects.
CallFails(r) ==
    /\ runs[r].pc \in UploadPcs \cup {"save"}
    /\ HandlerStep(r, Failed(runs[r], runs[r].pc), FALSE)

\* The Cancel button: navigate to the collection view.
Cancel ==
    /\ FormShown
    /\ location' = Collection(kind)
    /\ UNCHANGED <<kind, mode, id, draft, selectedCategories, socialLinksSelection,
                   loading, loadPc, categories, categoriesPc, fileVars, submitVars,
                   toggleHist, worldVars>>


(***************************************************************************)
(* SpecSubmit: submissions of one form instance                            *)
(***************************************************************************)

\* A draft the user has entered that passes validation.
FilledProject ==
    [ProjectDefaults EXCEPT !.name = "Foo", !.tagline = "bar",
                            !.description = "a sufficiently long description",
                            !.categories = <<"DeFi">>]

\* Project drafts at the time of the first submit event (create mode): the
\* minimal one, every flag on with its URL, every flag off again with the URL
\* typed before left in the field, and one whose description is too short.
UnfeaturedProjectDrafts ==
    { FilledProject,
      [FilledProject EXCEPT !.isHiring = TRUE, !.careerPageUrl = "https://foo.io/x",
                            !.isOpenForBounty = TRUE,
                            !.bountySubmissionUrl = "https://foo.io/x",
                            !.isOpenSource = TRUE, !.githubUrl = "https://foo.io/x"],
      [FilledProject EXCEPT !.careerPageUrl = "https://foo.io/x",
                            !.bountySubmissionUrl = "https://foo.io/x",
                            !.githubUrl = ""],
      [FilledProject EXCEPT !.description = "too short"] }

SubmitProjectDrafts ==
    {[d EXCEPT !.featured = f] : d \in UnfeaturedProjectDrafts, f \in BOOLEAN}

\* Video drafts at the time of the first submit event (create mode), given the
\* published projects the select offers.
SubmitVideoDrafts(published) ==
    { [VideoDefaults EXCEPT !.title = "Intro", !.playbackId = "pb1",
                            !.projectId = pid, !.featured = f]
        : pid \in published \cup {""}, f \in BOOLEAN }

\* The project files staged at the time of the first submit event.
StagedProjectFiles ==
    { [logo |-> NoFile, heroImage |-> NoFile, projectImages |-> <<>>],
      [logo |-> "logo.png", heroImage |-> NoFile, projectImages |-> <<>>],
      [logo |-> NoFile, heroImage |-> "hero.png", projectImages |-> <<"a.png", "b.png">>],
      [logo |-> "logo.png", heroImage |-> "hero.png", projectImages |-> <<"a.png">>] }

InitSubmit ==
    /\ kind \in {"project", "video"}
    /\ \/ mode = "create" /\ id = NoId
       \/ mode = "edit" /\ id \in RouteIds
    /\ selectedCategories = IF kind = "project" /\ mode = "create" THEN <<"DeFi">> ELSE <<>>
    /\ socialLinksSelection = AllFalse
    /\ loading = (mode = "edit")
    /\ loadPc = IF mode = "edit" THEN "fetching" ELSE "none"
    /\ categories = IF kind = "project" THEN CategoryNames ELSE {}
    /\ categoriesPc = IF kind = "project" THEN "done" ELSE "none"
    /\ location = "form"
    /\ \/ kind = "project" /\ projectsPc = "none" /\ projects = {}
       \/ kind = "video" /\ mode = "edit" /\ projectsPc = "fetching" /\ projects = {}
       \/ kind = "video" /\ mode = "create" /\ projectsPc = "done"
            /\ projects = PublishedProjects
       \/ kind = "video" /\ mode = "create" /\ projectsPc = "failed" /\ projects = {}
    /\ draft \in CASE kind = "project" /\ mode = "create" -> SubmitProjectDrafts
                   [] kind = "project" /\ mode = "edit" -> {ProjectDefaults}
                   [] kind = "video" /\ mode = "create" -> SubmitVideoDrafts(projects)
                   [] kind = "video" /\ mode = "edit" -> {VideoDefaults}
    /\ \E staged \in IF kind = "project" THEN StagedProjectFiles
                     ELSE {[logo |-> NoFile, heroImage |-> NoFile, projectImages |-> <<>>]} :
          /\ logoFile = staged.logo
          /\ heroImageFile = staged.heroImage
          /\ projectImageFiles = staged.projectImages
    /\ thumbnailFile \in IF kind = "video" THEN {NoFile, "thumb.png"} ELSE {NoFile}
    /\ runs = [r \in Runs |-> IdleRun]
    /\ toggleHist = NoHist
    /\ InitWorld

\* The counts getFeaturedCounts answers with: below, at and above the cap.
CountAnswers == (FeaturedCap - 1)..MaxCount

\* The steps of run r that the event loop takes once a promise has settled.
RunStep(r) ==
    \/ ResolverReturns(r)
    \/ \E n \in CountAnswers : CountsReturns(r, n)
    \/ CountsFails(r)
    \/ UploadReturns(r)
    \/ SaveReturns(r)
    \/ CallFails(r)

\* The requests of the mount effect settle.
LoadStep ==
    \/ \E project \in BackendProjects :
          FetchProjectReturns(project) /\ UNCHANGED <<fileVars, submitVars, toggleHist, outerVars>>
    \/ FetchProjectFails /\ UNCHANGED <<fileVars, submitVars, toggleHist, worldVars>>
    \/ \E video \in BackendVideos : FetchVideoReturns(video)
    \/ FetchVideoFails
    \/ FetchProjectsReturns
    \/ FetchProjectsFails

NextSubmit ==
    \/ \E r \in Runs : SubmitEvent(r)
    \/ Cancel
    \/ LoadStep
    \/ \E r \in Runs : RunStep(r)

SpecSubmit == InitSubmit /\ [][NextSubmit]_vars

\* Every call of a run eventually returns or fails, and so does the resolver.
SpecSubmitFair ==
    /\ InitSubmit
    /\ [][NextSubmit]_vars
    /\ \A r \in Runs : WF_vars(RunStep(r))

\* The create / update calls of the two forms.
SaveCalls == {"createProject", "updateProject", "createVideo", "updateVideo"}

\* The folder and upload calls of the two forms.
UploadCalls == {CallOf(k, step) : k \in {"project", "video"}, step \in UploadPcs}

\* The calls of c that are in the set ops, in order.
CallsIn(c, ops) == SelectSeq(c, LAMBDA x : x \in ops)

\* The run's handler got an answer from getFeaturedCounts.
Counted(run) == run.count # -1

\* C1: in create mode, a run for a featured draft whose count query answered 3
\* or more is rejected with an error toast, and getFeaturedCounts is the only
\* call it made; when the query answered less than 3 the run is not rejected
\* and went on to its next call: the folder call if there is something to
\* upload (always, for a project), else the create call.
C1_FeaturedCapRejectsCreate ==
    \A r \in Runs :
        (mode = "create" /\ Counted(runs[r])) =>
            /\ runs[r].data.featured
            /\ runs[r].count >= FeaturedCap =>
                  /\ runs[r].pc = "done" /\ runs[r].outcome = "rejected"
                  /\ runs[r].toast = "error"
                  /\ runs[r].calls = <<"getFeaturedCounts">>
                  /\ runs[r].nav = "none"
            /\ runs[r].count < FeaturedCap =>
                  /\ runs[r].outcome # "rejected"
                  /\ runs[r].toast # "error"
                  /\ Len(runs[r].calls) >= 2
                  /\ runs[r].calls[2] =
                        IF kind = "project" \/ runs[r].files.thumbnail # NoFile
                        THEN CallOf(kind, "folder")
                        ELSE SaveOp(kind, mode, id)

\* In create mode one run was rejected at the cap, for a draft with files
\* staged.
C1_Witness ==
    /\ mode = "create"
    /\ \E r \in Runs :
          /\ runs[r].outcome = "rejected" /\ runs[r].count = FeaturedCap
          /\ \/ runs[r].files.logo # NoFile
             \/ runs[r].files.thumbnail # NoFile

\* C2: a run that saved made exactly one create / update call, its last call:
\* the create call in create mode, the update call with the route's id in edit
\* mode; a run navigates only having saved, to the collection view, and a
\* failed, rejected or invalid run, or one still waiting for its call, has
\* not navigated.
C2_SaveCallByModeThenNavigate ==
    \A r \in Runs :
        /\ Len(CallsIn(runs[r].calls, SaveCalls)) <= 1
        /\ runs[r].outcome = "saved" =>
              /\ CallsIn(runs[r].calls, SaveCalls) = <<runs[r].save.op>>
              /\ runs[r].calls[Len(runs[r].calls)] = runs[r].save.op
              /\ mode = "create" =>
                    runs[r].save.op = IF kind = "project" THEN "createProject"
                                      ELSE "createVideo"
              /\ mode = "edit" =>
                    /\ runs[r].save.op = IF kind = "project" THEN "updateProject"
                                         ELSE "updateVideo"
                    /\ runs[r].save.id = id /\ id \in RouteIds
              /\ runs[r].nav = Collection(kind)
        /\ runs[r].nav # "none" => runs[r].outcome = "saved"
        /\ runs[r].outcome # "saved" => runs[r].nav = "none"

\* In edit mode a run saved with the update call and navigated.
C2_Witness ==
    /\ mode = "edit"
    /\ \E r \in Runs :
          /\ runs[r].outcome = "saved"
          /\ runs[r].save.op \in {"updateProject", "updateVideo"}
          /\ location = Collection(kind)

\* C5: in the payload a project run built, each of careerPageUrl,
\* bountySubmissionUrl and githubUrl is undefined when its flag is false in the
\* submitted data, whatever the data holds for it, and is the data's URL when
\* the flag is true.
C5_PayloadConditionalUrls ==
    \A r \in Runs :
        (kind = "project" /\ runs[r].save.op # "none") =>
            \A u \in ConditionalUrls :
                /\ ~runs[r].data[FlagOf[u]] => runs[r].save.payload[u] = Undefined
                /\ runs[r].data[FlagOf[u]] =>
                      /\ runs[r].save.payload[u] = runs[r].data[u]
                      /\ runs[r].save.payload[u] \in WellFormedUrls

\* A payload was built from data with a flag off and a URL left in its field.
C5_Witness ==
    \E r \in Runs :
        /\ kind = "project" /\ runs[r].save.op # "none"
        /\ \E u \in ConditionalUrls :
              /\ ~runs[r].data[FlagOf[u]]
              /\ runs[r].data[u] \in WellFormedUrls
              /\ runs[r].save.payload[u] = Undefined

\* The call of the step a run failed at.
FailedCall(run, k) ==
    IF run.failedAt = "save" THEN run.save.op ELSE CallOf(k, run.failedAt)

\* The run made no call after the step it failed at, it has returned and has
\* neither navigated nor announced a success.
StoppedAtFailure(run, k) ==
    /\ run.pc = "done" /\ run.outcome = "failed"
    /\ run.nav = "none" /\ run.toast = "none"
    /\ IF run.failedAt = "lookup"
       THEN CallsIn(run.calls, UploadCalls \cup SaveCalls) = <<>>
       ELSE /\ run.calls # <<>>
            /\ run.calls[Len(run.calls)] = FailedCall(run, k)
            /\ run.failedAt # "save" => CallsIn(run.calls, SaveCalls) = <<>>

C9_AtMostOneSubmissionInProgress ==
    Cardinality({r \in Runs : InHandler(runs[r])}) <= 1

\* C10: a run of the submit handler that is in progress leads to a state in
\* which it has returned and loading is false.
C10_LoadingEventuallyFalse ==
    \A r \in Runs :
        InHandler(runs[r]) ~> (runs[r].pc = "done" /\ ~loading)

\* A run has failed, another was rejected at the cap or has saved, and
\* loading is false.
C10_Witness ==
    /\ ~loading
    /\ \E r \in Runs : runs[r].outcome = "failed"
    /\ \E r \in Runs : runs[r].outcome \in {"rejected", "saved"}

\* Validate rejects the form values d: a rendered control fails the browser's
\* constraint validation, or the resolver reports an error.
Rejects(k, d, sel) == InputErrors(k, d, sel) # {} \/ SchemaErrors(k, d) # {}

\* C15: a submission whose form values Validate rejects does not get into the
\* submit handler: it ends with the field errors, it has made no call (count
\* query, folder, upload, create or update), it has not navigated, and
\* loading is false unless another submission is in the handler.
C15_InvalidDraftBlocksHandler ==
    \A r \in Runs :
        (runs[r].pc # "idle" /\ Rejects(kind, runs[r].data, socialLinksSelection)) =>
            /\ runs[r].pc \in {"validating", "done"}
            /\ runs[r].pc = "done" =>
                  runs[r].outcome = "invalid" /\ runs[r].errors # {}
            /\ runs[r].calls = <<>>
            /\ runs[r].save.op = "none"
            /\ runs[r].nav = "none" /\ runs[r].toast = "none"
            /\ loading => \E q \in Runs \ {r} : InHandler(runs[q])

\* A submission of a featured draft with files staged ended with field errors.
C15_Witness ==
    \E r \in Runs :
        /\ runs[r].outcome = "invalid"
        /\ runs[r].data.featured
        /\ runs[r].files.logo # NoFile

\* C16 as stated: a run that failed at the folder call, an upload or the
\* create / update call has shown an error toast.
C16_FailureRaisesErrorToast ==
    \A r \in Runs :
        runs[r].failedAt \in UploadPcs \cup {"save"} => runs[r].toast = "error"

\* The folder calls, and the calls that upload files.
FolderCalls == {"createProjectFolders", "createVideoFolder"}

FileCalls == UploadCalls \ FolderCalls

\* The positions in the sequence of calls c of the calls in ops.
Positions(c, ops) == {j \in 1..Len(c) : c[j] \in ops}

\* C17: in the calls of one run, every file upload comes after the folder call
\* and the create / update call after every folder and upload call; while the
\* folder call is pending no upload or save has been issued, while an upload is
\* pending no save has been issued, and when the save is issued the result of
\* the upload of every staged file is in; a run that failed at the folder call
\* has issued no upload and no save.
C17_FolderThenUploadsThenSave ==
    \A r \in Runs :
        LET c == runs[r].calls
        IN  /\ \A j \in Positions(c, FileCalls) :
                  \E i \in Positions(c, FolderCalls) : i < j
            /\ \A j \in Positions(c, SaveCalls) :
                  \A i \in Positions(c, UploadCalls) : i < j
            /\ runs[r].pc = "folder" => Positions(c, FileCalls \cup SaveCalls) = {}
            /\ runs[r].pc \in UploadPcs => Positions(c, SaveCalls) = {}
            /\ runs[r].failedAt = "folder" =>
                  Positions(c, FileCalls \cup SaveCalls) = {}
            /\ Positions(c, SaveCalls) # {} =>
                  /\ runs[r].files.logo # NoFile =>
                        runs[r].uploads.logo = UploadedUrl(runs[r].files.logo)
                  /\ runs[r].files.heroImage # NoFile =>
                        runs[r].uploads.heroImage = UploadedUrl(runs[r].files.heroImage)
                  /\ runs[r].files.projectImages # <<>> =>
                        Len(runs[r].uploads.projectImages) = Len(runs[r].files.projectImages)
                  /\ runs[r].files.thumbnail # NoFile =>
                        runs[r].uploads.thumbnail = UploadedUrl(runs[r].files.thumbnail)

\* A run has issued the folder call, three uploads and the save, and another
\* failed at its folder call.
C17_Witness ==
    /\ \E r \in Runs :
          /\ Cardinality(Positions(runs[r].calls, FileCalls)) = 3
          /\ Positions(runs[r].calls, SaveCalls) # {}
    /\ \E r \in Runs : runs[r].failedAt = "folder"


\* C22: a step in which the load of the entity fails leaves the form values,
\* the selected categories, the social-link flags, the previews and the
\* location as they were, raises no notification, and sets loading to false.
C22_LoadFailureLeavesFormAlone ==
    [][(loadPc = "fetching" /\ loadPc' = "failed") =>
          /\ UNCHANGED <<draft, selectedCategories, socialLinksSelection>>
          /\ UNCHANGED previewVars
          /\ UNCHANGED <<location, path>>
          /\ \A r \in Runs : runs'[r].toast = runs[r].toast
          /\ loading' = FALSE]_vars

\* The load has failed and the form is on screen, not loading.
C22_Witness ==
    /\ mode = "edit" /\ loadPc = "failed"
    /\ location = "form" /\ ~loading

\* C23: leaving the form does not cancel a submission: while the form is no
\* longer on screen, every step of a run in flight can still be taken, the
\* return of the folder call or of an upload (which issues the next upload or
\* the create / update call) and the return of the create / update call.
C23_SubmitNotCancelledByLeaving ==
    \A r \in Runs :
        location # "form" =>
            /\ runs[r].pc = "validating" => ENABLED ResolverReturns(r)
            /\ runs[r].pc = "counts" => ENABLED CountsFails(r)
            /\ runs[r].pc \in UploadPcs => ENABLED UploadReturns(r)
            /\ runs[r].pc = "save" => ENABLED SaveReturns(r)

\* Cancel was clicked while the folder call of a submission was in flight,
\* and the call's return, which issues what follows it, can be taken.
C23_Witness ==
    \E r \in Runs :
        /\ location = Collection(kind)
        /\ runs[r].pc = "folder" /\ runs[r].nav = "none"
        /\ \A q \in Runs : runs[q].outcome # "saved"
        /\ ENABLED UploadReturns(r)

\* C26: a run of the video form's handleSubmit holds a folder, upload, create
\* or update call only if the submitted projectId is in the published-project
\* list the form held at the submit event; a run for a projectId that is not
\* in it ends without such a call and without navigation.
C26_VideoCallsNeedPublishedProject ==
    kind = "video" =>
        \A r \in Runs :
            runs[r].pc # "idle" =>
                /\ CallsIn(runs[r].calls, UploadCalls \cup SaveCalls) # <<>> =>
                      runs[r].data.projectId \in runs[r].projects
                /\ (runs[r].pc = "done" /\ runs[r].data.projectId \notin runs[r].projects) =>
                      /\ CallsIn(runs[r].calls, UploadCalls \cup SaveCalls) = <<>>
                      /\ runs[r].nav = "none"
                      /\ runs[r].outcome \in {"invalid", "rejected", "failed"}

\* The handler of an edit submission ran for a loaded video whose project is
\* not in the list, and ended at the lookup.
C26_Witness ==
    /\ kind = "video" /\ mode = "edit" /\ loadPc = "done"
    /\ \E r \in Runs :
          /\ runs[r].pc = "done" /\ runs[r].failedAt = "lookup"
          /\ runs[r].data.projectId = "pr9"
          /\ runs[r].projects = PublishedProjects

\* C28 as stated: an update call for the form values as the load of a project
\* left them carries that project's isHiring, isOpenForBounty and
\* isOpenSource values.
C28_LoadedFlagsReachPayload ==
    \A r \in Runs : \A project \in BackendProjects :
        (/\ kind = "project" /\ mode = "edit" /\ loadPc = "done"
         /\ runs[r].save.op = "updateProject"
         /\ runs[r].data = LoadedProjectDraft(ProjectDefaults, project)) =>
            \A u \in ConditionalUrls :
                runs[r].save.payload[FlagOf[u]] = project[FlagOf[u]]

\* C30: no step of a run of handleSubmit, up to and including the one that
\* ends it rejected by the featured cap or failed, changes the form values,
\* the selected categories, the social-link flags, the staged files or the
\* previews; and once a run has ended so, with no other run under way and the
\* form on screen, the submit event can happen again.
C30_FailedSubmitLeavesDraft ==
    [][/\ \A r \in Runs :
             (runs[r].pc \notin {"idle", "done"} /\ runs'[r] # runs[r]) =>
                 /\ UNCHANGED <<draft, selectedCategories, socialLinksSelection>>
                 /\ UNCHANGED <<fileVars, previewVars>>
       /\ (/\ \E r \in Runs : runs[r].outcome \in {"rejected", "failed"}
           /\ \A q \in Runs : runs[q].pc \in {"idle", "done"}
           /\ FormShown) =>
             \E r \in Runs : ENABLED SubmitEvent(r)]_vars

\* A submission with a logo staged failed at its create / update call, after
\* the uploads, and the form is on screen with the logo still staged.
C30_Witness ==
    \E r \in Runs :
        /\ runs[r].pc = "done" /\ runs[r].outcome = "failed"
        /\ runs[r].failedAt = "save"
        /\ \A q \in Runs : runs[q].pc \in {"idle", "done"}
        /\ FormShown /\ ~loading
        /\ logoFile # NoFile /\ logoFile = runs[r].files.logo
        /\ draft = runs[r].data

(***************************************************************************)
(* SpecRoute: the router and the session                                   *)
(***************************************************************************)

\* The application at start: AuthProvider is resolving the session, the
\* browser is at some path, no form is mounted.
InitRoute ==
    /\ kind = "none" /\ mode = "none" /\ id = NoId
    /\ draft = ProjectDefaults
    /\ selectedCategories = <<>>
    /\ socialLinksSelection = AllFalse
    /\ loading = FALSE
    /\ loadPc = "none"
    /\ categories = {}
    /\ categoriesPc = "none"
    /\ location = "none"
    /\ InitIdle
    /\ projectsPc = "none"
    /\ toggleHist = NoHist
    /\ path \in Paths
    /\ authLoading = TRUE
    /\ isAuthenticated = FALSE
    /\ hops = [from |-> path, n |-> 0]
    /\ featuredIds = {}
    /\ other = NoOther
    /\ NothingStaged

RouteFrame ==
    UNCHANGED <<formVars, fileVars, submitVars, toggleHist, backendVars, stageVars, previewVars>>

\* The user follows a link or enters a URL.
GoTo(p) ==
    /\ path' = p
    /\ hops' = [from |-> p, n |-> 0]
    /\ UNCHANGED <<authLoading, isAuthenticated>>
    /\ RouteFrame

\* A rendered <Navigate to=... replace /> takes effect.
Redirect ==
    /\ Render(path, authLoading, isAuthenticated).kind = "navigate"
    /\ path' = Render(path, authLoading, isAuthenticated).to
    /\ hops' = [hops EXCEPT !.n = hops.n + 1]
    /\ UNCHANGED <<authLoading, isAuthenticated>>
    /\ RouteFrame

\* The initial resolution of the session completes.
SessionResolves(authenticated) ==
    /\ authLoading
    /\ authLoading' = FALSE
    /\ isAuthenticated' = authenticated
    /\ UNCHANGED <<path, hops>>
    /\ RouteFrame

\* login(credentials) succeeds.
Login ==
    /\ ~authLoading /\ ~isAuthenticated
    /\ Render(path, authLoading, isAuthenticated) = View(LoginRoute)
    /\ isAuthenticated' = TRUE
    /\ hops' = [from |-> path, n |-> 0]
    /\ UNCHANGED <<path, authLoading>>
    /\ RouteFrame

\* logout()
Logout ==
    /\ ~authLoading /\ isAuthenticated
    /\ isAuthenticated' = FALSE
    /\ hops' = [from |-> path, n |-> 0]
    /\ UNCHANGED <<path, authLoading>>
    /\ RouteFrame

NextRoute ==
    \/ \E p \in Paths : GoTo(p)
    \/ Redirect
    \/ \E authenticated \in BOOLEAN : SessionResolves(authenticated)
    \/ Login
    \/ Logout

SpecRoute == InitRoute /\ [][NextRoute]_vars

\* What is on screen.
Rendered == Render(path, authLoading, isAuthenticated)

\* C11: at a path that matches a declared route other than /login, a view is
\* rendered only if the session is not loading and is authenticated; while it
\* is loading the spinner is rendered, which is no redirect; when it is not
\* loading and not authenticated a redirect to /login is rendered, and no view.
C11_ProtectedRoutesGuarded ==
    Match(path) \in DeclaredRoutes \ {LoginRoute} =>
        /\ Rendered.kind = "view" => ~authLoading /\ isAuthenticated
        /\ authLoading => Rendered = Spinner
        /\ (~authLoading /\ ~isAuthenticated) => Rendered = Navigate(LoginPath)
        /\ (~authLoading /\ isAuthenticated) =>
              Rendered = RouteElement(Match(path))

\* The session was resolved as not authenticated at the edit route of a
\* project, and the redirect to /login is rendered.
C11_Witness ==
    /\ path = <<"projects", "p1", "edit">>
    /\ ~authLoading /\ ~isAuthenticated
    /\ hops.n = 0
    /\ Rendered = Navigate(LoginPath)
\* The path matches no declared route.
Unmatched(p) == Match(p) = CatchAll

\* No redirect is pending.
Settled == Rendered.kind # "navigate"

\* C12: at a path that matches no declared route a redirect to /dashboard is
\* rendered; a navigation is followed by at most two redirects; and once the
\* session is resolved, where the redirects that followed a navigation to an
\* unmatched path have ended is /dashboard if the session is authenticated and
\* /login if it is not.
C12_UnmatchedPathSettles ==
    /\ Unmatched(path) => Rendered = Navigate(DashboardPath)
    /\ hops.n <= 2
    /\ (Unmatched(hops.from) /\ ~authLoading /\ Settled) =>
          path = IF isAuthenticated THEN DashboardPath ELSE LoginPath

\* From an unmatched path an unauthenticated user was redirected twice and is
\* at /login.
C12_Witness ==
    /\ Unmatched(hops.from)
    /\ ~authLoading /\ ~isAuthenticated
    /\ hops.n = 2
    /\ path = LoginPath
    /\ Settled

(***************************************************************************)
(* SpecFeatured: submissions against the backend's featured entities       *)
(***************************************************************************)

\* The entities of the form's kind the backend holds at the start, p1 the one
\* the edit route names, and the ids the backend gives to created entities.
ExistingIds == {"p1", "e2", "e3"}

NewIds == {"n1", "n2", "n3"}

OtherNewId == "o1"

\* counts.projects / counts.videos as the backend computes it.
TrueCount == Cardinality(featuredIds)

\* The featured entities after the backend applied a create / update call
\* exactly as sent.
Applied(featured, save) ==
    IF save.op \in {"createProject", "createVideo"}
    THEN IF save.payload.featured
         THEN featured \cup {CHOOSE n \in NewIds : n \notin featured}
         ELSE featured
    ELSE IF save.payload.featured THEN featured \cup {save.id}
         ELSE featured \ {save.id}

\* A draft that passes validation, as entered or loaded, with nothing staged.
FilledDraft(k) ==
    IF k = "project" THEN FilledProject
    ELSE [VideoDefaults EXCEPT !.title = "Intro", !.playbackId = "pb1",
                               !.projectId = "pr1"]

\* The state of a form that is mounted, loaded and filled in.
MountedForm(k, m, f) ==
    /\ kind' = k
    /\ mode' = m
    /\ id' = IF m = "edit" THEN "p1" ELSE NoId
    /\ draft' = [FilledDraft(k) EXCEPT !.featured = f]
    /\ selectedCategories' = IF k = "project" THEN <<"DeFi">> ELSE <<>>
    /\ socialLinksSelection' = AllFalse
    /\ loading' = FALSE
    /\ loadPc' = IF m = "edit" THEN "done" ELSE "none"
    /\ categories' = IF k = "project" THEN CategoryNames ELSE {}
    /\ categoriesPc' = IF k = "project" THEN "done" ELSE "none"
    /\ location' = "form"
    /\ projects' = IF k = "video" THEN PublishedProjects ELSE {}
    /\ projectsPc' = IF k = "video" THEN "done" ELSE "none"
    /\ runs' = [r \in Runs |-> IdleRun]

InitFeatured ==
    /\ kind \in {"project", "video"}
    /\ \/ mode = "create" /\ id = NoId
       \/ mode = "edit" /\ id = "p1"
    /\ draft \in {[FilledDraft(kind) EXCEPT !.featured = f] : f \in BOOLEAN}
    /\ selectedCategories = IF kind = "project" THEN <<"DeFi">> ELSE <<>>
    /\ socialLinksSelection = AllFalse
    /\ loading = FALSE
    /\ loadPc = IF mode = "edit" THEN "done" ELSE "none"
    /\ categories = IF kind = "project" THEN CategoryNames ELSE {}
    /\ categoriesPc = IF kind = "project" THEN "done" ELSE "none"
    /\ location = "form"
    /\ projects = IF kind = "video" THEN PublishedProjects ELSE {}
    /\ projectsPc = IF kind = "video" THEN "done" ELSE "none"
    /\ logoFile = NoFile /\ heroImageFile = NoFile /\ projectImageFiles = <<>>
    /\ thumbnailFile = NoFile
    /\ runs = [r \in Runs |-> IdleRun]
    /\ toggleHist = NoHist
    /\ path = FormPath(kind, mode, id)
    /\ authLoading = FALSE
    /\ isAuthenticated = TRUE
    /\ hops = NoHops
    /\ featuredIds \in SUBSET ExistingIds
    /\ other = NoOther
    /\ NothingStaged

\* A submit event while no earlier submission of this form is in progress.
SubmitAlone(r) ==
    /\ \A q \in Runs : runs[q].pc \in {"idle", "done"}
    /\ SubmitEvent(r)

\* getFeaturedCounts resolves with the backend's count.
CountsReturnsTrue(r) == CountsReturns(r, TrueCount)

\* The create / update call resolves, the backend having applied it.
SaveApplied(r) ==
    /\ runs[r].pc = "save"
    /\ runs' = [runs EXCEPT ![r] = Saved(runs[r], kind)]
    /\ loading' = FALSE
    /\ location' = Collection(kind)
    /\ featuredIds' = Applied(featuredIds, runs[r].save)
    /\ UNCHANGED <<kind, mode, id, draft, selectedCategories, socialLinksSelection,
                   loadPc, categories, categoriesPc, fileVars, projects, projectsPc,
                   toggleHist, routeVars, other, stageVars, previewVars>>

\* The user opens the create or the edit form of the same kind again and
\* fills it in.
OpenForm(m, f) ==
    /\ location # "form"
    /\ MountedForm(kind, m, f)
    /\ UNCHANGED <<fileVars, toggleHist, worldVars>>

\* A second form instance (another tab, another admin) submits a new featured
\* entity: its getFeaturedCounts resolves, and the cap test lets it pass or
\* rejects it.
OtherCounts ==
    /\ other.pc = "idle"
    /\ other' = IF CapReached("create", TrueCount)
                THEN [pc |-> "rejected", count |-> TrueCount]
                ELSE [pc |-> "passed", count |-> TrueCount]
    /\ UNCHANGED <<formVars, fileVars, submitVars, toggleHist, routeVars,
                   featuredIds, stageVars, previewVars>>

\* The second instance's create call resolves, the backend having applied it.
OtherCreates ==
    /\ other.pc = "passed"
    /\ other' = [other EXCEPT !.pc = "created"]
    /\ featuredIds' = featuredIds \cup {OtherNewId}
    /\ UNCHANGED <<formVars, fileVars, submitVars, toggleHist, routeVars, stageVars, previewVars>>

NextFeatured ==
    \/ \E r \in Runs : SubmitAlone(r)
    \/ \E r \in Runs : ResolverReturns(r)
    \/ \E r \in Runs : CountsReturnsTrue(r)
    \/ \E r \in Runs : UploadReturns(r)
    \/ \E r \in Runs : CallFails(r)
    \/ \E r \in Runs : SaveApplied(r)
    \/ \E b \in BOOLEAN :
          SetFeatured(b) /\ UNCHANGED <<fileVars, submitVars, toggleHist, worldVars>>
    \/ \E m \in {"create", "edit"}, f \in BOOLEAN : OpenForm(m, f)
    \/ OtherCounts
    \/ OtherCreates

SpecFeatured == InitFeatured /\ [][NextFeatured]_vars

\* C13: as long as no second form instance has submitted, the backend holds at
\* most 3 featured entities of the form's kind.
C13_CapHoldsForOneForm ==
    other.pc = "idle" => TrueCount <= FeaturedCap

\* The form's third featured entity has been created, after a count of 2.
C13_Witness ==
    /\ other.pc = "idle"
    /\ TrueCount = FeaturedCap
    /\ \E r \in Runs :
          /\ runs[r].outcome = "saved" /\ runs[r].save.op \in {"createProject", "createVideo"}
          /\ runs[r].count = FeaturedCap - 1
\* C14: with a second form instance the backend can come to hold more than 3
\* featured entities, by one: that takes the second instance's create to
\* complete after its count query answered less than 3, while the form's own
\* submission passed the check as well.
C14_CheckThenCreateNotAtomic ==
    /\ TrueCount <= FeaturedCap + 1
    /\ TrueCount > FeaturedCap =>
          /\ other.pc = "created"
          /\ other.count < FeaturedCap

\* Both instances read a count of 2, both created their featured entity, and
\* the backend holds 4.
C14_Witness ==
    /\ TrueCount = FeaturedCap + 1
    /\ other.pc = "created" /\ other.count = FeaturedCap - 1
    /\ \E r \in Runs :
          /\ runs[r].outcome = "saved"
          /\ runs[r].save.op \in {"createProject", "createVideo"}
          /\ runs[r].data.featured
          /\ runs[r].count = FeaturedCap - 1
\* Completing the form's submission as it stands would leave the backend with
\* more than 3 featured entities.
WouldExceedCap ==
    IF mode = "create" THEN TrueCount + 1 > FeaturedCap
    ELSE Cardinality(featuredIds \cup {id}) > FeaturedCap

\* C18 as stated: with only this form submitting, a featured run is rejected
\* by the cap check only if completing it would exceed the cap, and a run that
\* passed the check would not exceed it.
C18_RejectedIffCapExceeded ==
    \A r \in Runs :
        other.pc = "idle" =>
            /\ runs[r].outcome = "rejected" => WouldExceedCap
            /\ (Counted(runs[r]) /\ InHandler(runs[r])) => ~WouldExceedCap

(***************************************************************************)
(* SpecStage: staging files in the single-file slots, and submitting       *)
(***************************************************************************)

\* The slots handleFileChange serves in each form.
FormSlots(k) == IF k = "project" THEN {"logo", "heroImage"} ELSE {"thumbnail"}

\* The files the user selects.
FileChoices == {"a.png", "b.png"}

\* Reads in progress at one time.
MaxReads == 2

\* setLogoFile(f), setHeroImageFile(f), setThumbnailFile(f), each with the
\* set of the slot's preview that goes with it.
SetSlot(slot, f) ==
    /\ logoFile' = IF slot = "logo" THEN f ELSE logoFile
    /\ heroImageFile' = IF slot = "heroImage" THEN f ELSE heroImageFile
    /\ thumbnailFile' = IF slot = "thumbnail" THEN f ELSE thumbnailFile
    /\ logoPreview' = IF slot = "logo" THEN PreviewOf(f) ELSE logoPreview
    /\ heroImagePreview' = IF slot = "heroImage" THEN PreviewOf(f) ELSE heroImagePreview
    /\ thumbnailPreview' = IF slot = "thumbnail" THEN PreviewOf(f) ELSE thumbnailPreview
    /\ UNCHANGED <<projectImageFiles, projectImagePreviews>>

\* handleFileChange(file, type): for a file, a FileReader is started, whose
\* onload will set the slot; for null, the slot is cleared at once. (A file is
\* not selected again while its read is in progress: reads is a set.)
handleFileChange(slot, f) ==
    /\ FormShown
    /\ slot \in FormSlots(kind)
    /\ picked' = [picked EXCEPT ![slot] = f]
    /\ IF f # NoFile
       THEN /\ Cardinality(reads) < MaxReads
            /\ <<slot, f>> \notin reads
            /\ reads' = reads \cup {<<slot, f>>}
            /\ UNCHANGED <<fileVars, previewVars>>
       ELSE SetSlot(slot, NoFile) /\ UNCHANGED reads
    /\ UNCHANGED <<formVars, submitVars, toggleHist, routeVars, backendVars,
                   galleryReads, readLog>>

\* reader.onload: setLogoFile(file) (setHeroImageFile, setThumbnailFile) and
\* the preview.
ReadCompletes(slot, f) ==
    /\ <<slot, f>> \in reads
    /\ reads' = reads \ {<<slot, f>>}
    /\ SetSlot(slot, f)
    /\ UNCHANGED <<formVars, submitVars, toggleHist, routeVars, backendVars, picked,
                   galleryReads, readLog>>

\* The read fails: there is no onerror handler, nothing is set.
ReadFails(slot, f) ==
    /\ <<slot, f>> \in reads
    /\ reads' = reads \ {<<slot, f>>}
    /\ readLog' = [readLog EXCEPT !.failed = TRUE]
    /\ UNCHANGED <<formVars, fileVars, submitVars, toggleHist, routeVars,
                   backendVars, picked, galleryReads, previewVars>>

\* A create form, filled in with a draft that is valid and not featured,
\* nothing staged; one submission is followed.
InitStage ==
    /\ kind \in {"project", "video"}
    /\ mode = "create" /\ id = NoId
    /\ draft = FilledDraft(kind)
    /\ selectedCategories = IF kind = "project" THEN <<"DeFi">> ELSE <<>>
    /\ socialLinksSelection = AllFalse
    /\ loading = FALSE
    /\ loadPc = "none"
    /\ categories = IF kind = "project" THEN CategoryNames ELSE {}
    /\ categoriesPc = IF kind = "project" THEN "done" ELSE "none"
    /\ location = "form"
    /\ projects = IF kind = "video" THEN PublishedProjects ELSE {}
    /\ projectsPc = IF kind = "video" THEN "done" ELSE "none"
    /\ logoFile = NoFile /\ heroImageFile = NoFile /\ projectImageFiles = <<>>
    /\ thumbnailFile = NoFile
    /\ runs = [r \in Runs |-> IdleRun]
    /\ toggleHist = NoHist
    /\ InitWorld

NextStage ==
    \/ \E slot \in {"logo", "heroImage", "thumbnail"}, f \in FileChoices \cup {NoFile} :
          handleFileChange(slot, f)
    \/ \E slot \in {"logo", "heroImage", "thumbnail"}, f \in FileChoices :
          ReadCompletes(slot, f)
    \/ \E slot \in {"logo", "heroImage", "thumbnail"}, f \in FileChoices :
          ReadFails(slot, f)
    \/ SubmitEvent(1)
    \/ ResolverReturns(1)
    \/ UploadReturns(1)
    \/ SaveReturns(1)

SpecStage == InitStage /\ [][NextStage]_vars

\* C20 as stated: a submission that starts holds, for each of the logo, hero
\* image and thumbnail slots, the file last selected for the slot as the file
\* to upload.
C20_SubmitUploadsSelectedFile ==
    [][\A r \in Runs :
          (runs[r].pc # "validating" /\ runs'[r].pc = "validating") =>
              \A slot \in {"logo", "heroImage", "thumbnail"} :
                  runs'[r].files[slot] = picked[slot]]_vars


\* The file and the preview a single-file slot holds.
SlotFile(slot) ==
    CASE slot = "logo" -> logoFile
      [] slot = "heroImage" -> heroImageFile
      [] slot = "thumbnail" -> thumbnailFile

SlotPreview(slot) ==
    CASE slot = "logo" -> logoPreview
      [] slot = "heroImage" -> heroImagePreview
      [] slot = "thumbnail" -> thumbnailPreview

\* C24 as stated: as long as no read has failed, a slot none of whose reads is
\* still in progress holds the file last selected for it and that file's
\* preview, and a slot for which none was selected last holds no file and no
\* preview, reads in progress or not.
C24_LastSelectionWins ==
    ~readLog.failed =>
        \A slot \in FormSlots(kind) :
            /\ (\A f \in FileChoices : <<slot, f>> \notin reads) =>
                  /\ SlotFile(slot) = picked[slot]
                  /\ SlotPreview(slot) = PreviewOf(picked[slot])
            /\ picked[slot] = NoFile =>
                  /\ SlotFile(slot) = NoFile
                  /\ SlotPreview(slot) = ""

(***************************************************************************)
(* SpecGallery: the project form's gallery staging, load and one submission *)
(***************************************************************************)

\* The gallery files staged at one time.
MaxGallery == 2

\* The FileLists the gallery input delivers (multiple).
GallerySelections == {<<"a.png">>, <<"b.png">>, <<"a.png", "b.png">>}

RECURSIVE FilterIndex(_, _, _)
\* prev.filter((_, i) => i !== index), from position i on
FilterIndex(s, i, index) ==
    IF s = <<>> THEN <<>>
    ELSE (IF i # index THEN <<Head(s)>> ELSE <<>>) \o FilterIndex(Tail(s), i + 1, index)

\* Mutant of WithoutIndex: the element after the index is dropped.
WithoutIndexOffByOne(s, index) == FilterIndex(s, 0, index + 1)

\* prev.filter((_, i) => i !== index)
WithoutIndex(s, index) == FilterIndex(s, 0, index)

GalleryFrame ==
    UNCHANGED <<formVars, logoFile, heroImageFile, thumbnailFile, submitVars,
                toggleHist, routeVars, backendVars, picked, reads, logoPreview,
                heroImagePreview, thumbnailPreview>>

\* handleProjectImagesChange(files): the files are appended at once and one
\* FileReader per file is started.
handleProjectImagesChange(files) ==
    /\ kind = "project" /\ FormShown
    /\ Len(projectImageFiles) + Len(files) <= MaxGallery
    /\ projectImageFiles' = projectImageFiles \o files
    /\ galleryReads' = galleryReads \o files
    /\ UNCHANGED <<projectImagePreviews, readLog>>
    /\ GalleryFrame

\* Mutant of GalleryReadCompletes: the preview is put in front.
GalleryReadCompletesInFront(k) ==
    /\ k \in 1..Len(galleryReads)
    /\ projectImagePreviews' = <<PreviewOf(galleryReads[k])>> \o projectImagePreviews
    /\ galleryReads' = WithoutIndex(galleryReads, k - 1)
    /\ readLog' = [readLog EXCEPT !.outOfOrder = @ \/ k > 1]
    /\ UNCHANGED projectImageFiles
    /\ GalleryFrame

\* reader.onload of the k-th read in progress: its preview is appended.
GalleryReadCompletes(k) ==
    /\ k \in 1..Len(galleryReads)
    /\ projectImagePreviews' = Append(projectImagePreviews, PreviewOf(galleryReads[k]))
    /\ galleryReads' = WithoutIndex(galleryReads, k - 1)
    /\ readLog' = [readLog EXCEPT !.outOfOrder = @ \/ k > 1]
    /\ UNCHANGED projectImageFiles
    /\ GalleryFrame

\* The k-th read in progress fails: there is no onerror handler.
GalleryReadFails(k) ==
    /\ k \in 1..Len(galleryReads)
    /\ galleryReads' = WithoutIndex(galleryReads, k - 1)
    /\ readLog' = [readLog EXCEPT !.failed = TRUE]
    /\ UNCHANGED <<projectImageFiles, projectImagePreviews>>
    /\ GalleryFrame

\* removeProjectImage(index), from the button on the preview at index.
removeProjectImage(index) ==
    /\ kind = "project" /\ FormShown
    /\ index \in 0..(Len(projectImagePreviews) - 1)
    /\ projectImageFiles' = WithoutIndex(projectImageFiles, index)
    /\ projectImagePreviews' = WithoutIndex(projectImagePreviews, index)
    /\ readLog' = [readLog EXCEPT !.removed = TRUE]
    /\ UNCHANGED galleryReads
    /\ GalleryFrame

\* The project form after mount with a valid draft entered (create mode) or
\* with the load of the project in flight (edit mode).
InitGallery ==
    /\ kind = "project"
    /\ \/ mode = "create" /\ id = NoId /\ draft = FilledDraft("project")
          /\ selectedCategories = <<"DeFi">>
       \/ mode = "edit" /\ id = "p1" /\ draft = ProjectDefaults
          /\ selectedCategories = <<>>
    /\ socialLinksSelection = AllFalse
    /\ loading = (mode = "edit")
    /\ loadPc = IF mode = "edit" THEN "fetching" ELSE "none"
    /\ categories = CategoryNames
    /\ categoriesPc = "done"
    /\ location = "form"
    /\ InitIdle
    /\ projectsPc = "none"
    /\ toggleHist = NoHist
    /\ InitWorld

\* The previews the grid can show: the stored images and the staged files'.
GalleryIndices == 0..MaxGallery

NextGallery ==
    \/ \E files \in GallerySelections : handleProjectImagesChange(files)
    \/ \E k \in 1..MaxGallery : GalleryReadCompletes(k)
    \/ \E k \in 1..MaxGallery : GalleryReadFails(k)
    \/ \E index \in GalleryIndices : removeProjectImage(index)
    \/ \E project \in BackendProjects :
          FetchProjectReturns(project) /\ UNCHANGED <<fileVars, submitVars, toggleHist, outerVars>>
    \/ FetchProjectFails /\ UNCHANGED <<fileVars, submitVars, toggleHist, worldVars>>
    \/ SubmitEvent(1)
    \/ ResolverReturns(1)
    \/ UploadReturns(1)
    \/ SaveReturns(1)

SpecGallery == InitGallery /\ [][NextGallery]_vars

\* The list after is the list before without its element at position index
\* (counted from 0), or the list before if it has no such position.
RemovedAt(before, after, index) ==
    IF index < Len(before)
    THEN /\ Len(after) = Len(before) - 1
         /\ \A j \in 1..Len(after) :
               after[j] = before[IF j <= index THEN j ELSE j + 1]
    ELSE after = before

\* C21: removeProjectImage(index) removes exactly the element at position
\* index from the staged gallery files and exactly the element at position
\* index from the previews, keeping the other elements and their order; a list
\* that has no position index is left unchanged.
C21_RemoveByPosition ==
    [][\A index \in GalleryIndices :
          removeProjectImage(index) =>
              /\ RemovedAt(projectImageFiles, projectImageFiles', index)
              /\ RemovedAt(projectImagePreviews, projectImagePreviews', index)]_vars

\* A gallery image was removed, and files and previews are still staged.
C21_Witness ==
    /\ readLog.removed
    /\ projectImageFiles # <<>>
    /\ projectImagePreviews # <<>>

StoredImage(v) ==
    \E project \in BackendProjects :
        IsArray(project.images) /\ v \in SetOf(project.images)

\* The payload of a run's create / update call carries a logo, a heroImage
\* and projectImages exactly for the slots that had a file staged at the
\* submit event.
PayloadImagesFromStagedFiles ==
    \A r \in Runs :
        (kind = "project" /\ runs[r].save.op # "none") =>
            /\ runs[r].save.payload.logo # Undefined <=> runs[r].files.logo # NoFile
            /\ runs[r].save.payload.heroImage # Undefined
                  <=> runs[r].files.heroImage # NoFile
            /\ runs[r].save.payload.projectImages # UndefinedList
                  <=> runs[r].files.projectImages # <<>>

\* C27 as stated: the payload's image values come from the files staged at the
\* submit event and from them only, and removing the preview of a stored
\* gallery image leaves the staged gallery files, hence the payload a Submit
\* builds, as they were.
C27_PayloadImagesFromStagedFilesOnly ==
    [][/\ PayloadImagesFromStagedFiles
       /\ \A index \in GalleryIndices :
             (/\ removeProjectImage(index)
              /\ StoredImage(projectImagePreviews[index + 1])) =>
                 projectImageFiles' = projectImageFiles]_vars

====
